---- MODULE Spec2Model ----
(***************************************************************************)
(* FrozenBetApi: the scoring and ranking subsystem.                        *)
(*                                                                         *)
(* MatchService.updateScore stores a match result and, when the stored     *)
(* status is 'finished', calls PredictionService.calculatePointsForMatch,  *)
(* which scores every prediction of the match, adds the points to the      *)
(* group member and to the group ranking row, and re-ranks every group     *)
(* touched.  Every `await prisma....` of the source is one atomic step of  *)
(* the calling request; requests interleave at those steps.                *)
(***************************************************************************)
EXTENDS Integers, Sequences, FiniteSets, TLC

\* ------------------------------------------------------------------ bounds

\* At most this many finalizations (runs of the scoring loop) are started.
MaxFinalize == 2
\* calculatePoints is applied to scores 0..MaxScore
MaxScore == 2
\* and to rule lists of at most this many rules.
MaxRules == 2
\* At most this many prediction ids are handed out.
MaxPredictionIds == 3
\* At most this many member ids are handed out.
MaxMemberIds == 6
\* A createScoringRule is started only while the next rule id is at most this.
MaxRuleIds == 7
\* At most this many invitation ids are handed out.
MaxInvitationIds == 2

\* ------------------------------------------------------------- identifiers

Users == {"u1", "u2", "u3"}
Groups == {"g1", "g2"}
\* The matches stored at the start; predictions are made on these.
Matches == {"m1", "m2"}
\* Match ids a request may carry: "mX" has no record until createMatch or the
\* ingest stores one under it (it is the id matches.id AUTOINCREMENT gives next).
MatchIds == Matches \cup {"mX"}
\* The teams stored at the start, and the team ids a request may carry: "tX"
\* has no record until a body names it.
Teams == {"t1", "t2", "t3"}
TeamIds == Teams \cup {"tX"}
\* The competition stored at the start, and the competition ids a request may
\* carry: "cX" has no record until a competition is created (it is the id
\* competitions.id AUTOINCREMENT gives next) or a body names it.
Competitions == {"c1"}
CompetitionIds == {"c1", "cX"}
\* The foreign keys a match is created with, by createMatch and by the items
\* of the ingest: m1 is t1 v t2, m2 is t1 v t3 and the match stored under "mX"
\* is t2 v t3, all of competition c1.
MatchRefs(m) ==
  [competitionId |-> "c1",
   homeTeamId |-> IF m = "mX" THEN "t2" ELSE "t1",
   awayTeamId |-> IF m = "m1" THEN "t2" ELSE "t3"]
\* groups.id AUTOINCREMENT: the ids in the order they are given.
GroupIds == <<"g1", "g2">>
\* The ids of the invitations; every invitation here is of u2 to g2 and has
\* not expired, and its token stands for its id.
InvitationIds == 1..MaxInvitationIds
Invitee == "u2"
InviteGroup == "g2"
\* The requests that may be in progress at the same time.
Procs == {1, 2}

\* A nullable column or an optional value: <<>> is null, <<v>> holds v.
Null == <<>>
Some(v) == <<v>>
Val(n) == n[1]

\* ------------------------------------------------------------ scoring rules

\* 'Exact score', 'Correct winner', 'Correct draw' as character sequences.
ExactScoreKeyword == <<"E","x","a","c","t"," ","s","c","o","r","e">>
CorrectWinnerKeyword == <<"C","o","r","r","e","c","t"," ","w","i","n","n","e","r">>
CorrectDrawKeyword == <<"C","o","r","r","e","c","t"," ","d","r","a","w">>

\* The three rules createGroup stores for a new group.
SeedRules ==
  << [ruleDescription |-> Some(ExactScoreKeyword), points |-> 5],
     [ruleDescription |-> Some(CorrectWinnerKeyword), points |-> 3],
     [ruleDescription |-> Some(CorrectDrawKeyword), points |-> 3] >>

\* groupScoringRule.createMany of the three rules: the rows, with consecutive
\* ids from first.
SeedRows(first) ==
  [i \in 1..Len(SeedRules) |->
     [id |-> first + i - 1, ruleDescription |-> SeedRules[i].ruleDescription,
      points |-> SeedRules[i].points]]

\* String.prototype.includes: kw occurs in s as a contiguous substring.
Includes(s, kw) ==
  \E i \in 0..(Len(s) - Len(kw)) : SubSeq(s, i + 1, i + Len(kw)) = kw

\* rules.find(r => r.ruleDescription?.includes(kw)): the first match, or
\* null; a null description matches nothing.
FindRule(rules, kw) ==
  LET hits == {i \in 1..Len(rules) :
                 /\ rules[i].ruleDescription # Null
                 /\ Includes(Val(rules[i].ruleDescription), kw)}
  IN IF hits = {} THEN Null
     ELSE Some(rules[CHOOSE i \in hits : \A j \in hits : i <= j])

\* Mutant of PointsOr: no default when no rule is found.
PointsOr_noDefault(rule, dflt) ==
  IF rule = Null THEN 0 ELSE Val(rule).points

\* rule?.points || dflt: the default when there is no rule or its points are 0.
PointsOr(rule, dflt) ==
  IF rule = Null THEN dflt
  ELSE IF Val(rule).points = 0 THEN dflt ELSE Val(rule).points

MatchResult(home, away) ==
  IF home > away THEN "home" ELSE IF home < away THEN "away" ELSE "draw"

calculatePoints(predictedHome, predictedAway, actualHome, actualAway, rules) ==
  IF predictedHome = actualHome /\ predictedAway = actualAway
  THEN PointsOr(FindRule(rules, ExactScoreKeyword), 5)
  ELSE IF MatchResult(predictedHome, predictedAway) = MatchResult(actualHome, actualAway)
       THEN IF MatchResult(actualHome, actualAway) = "draw"
            THEN PointsOr(FindRule(rules, CorrectDrawKeyword), 3)
            ELSE PointsOr(FindRule(rules, CorrectWinnerKeyword), 3)
       ELSE 0

\* -------------------------------------------------------------------- state

VARIABLES
  matches,      \* match id -> Null | <<[status, homeScore, awayScore]>>
  predictions,  \* <<user, match, group>> -> Null | <<[home, away, pointsEarned]>>
  members,      \* group -> user -> Null | <<totalPoints>>   (group_members)
  rankings,     \* group -> user -> Null | <<ranking row>>   (group_rankings)
  rules,        \* group -> sequence of scoring rules, each with its id
  started,      \* match -> whether its scheduledDate has passed
  call,         \* request -> its position and local variables
  scoredWith,   \* history: match -> the results its finalizations read, in order
  rankBefore,   \* history: group -> user -> the rank the row held when the
                \* latest updateGroupRankings of the group began
  cpArgs,       \* the arguments of a call of calculatePoints on its own
  cpResult,     \* Null | <<what that call returned>>
  groups,       \* the ids of the groups that exist                (groups)
  invitations,  \* invitation id -> Null | <<[status, inviterId]>>: the
                \* invitations of u2 to g2                 (group_invitations)
  nextPredictionId, \* the next value of the autoincrement predictions.id
  nextMatchId,  \* the next value of the autoincrement matches.id: "mX", then
                \* "m4", an id beyond those carried here
  teams,        \* the teams that have a record                   (teams)
  memberRows,   \* group -> user -> Null | <<[id, role]>>   (group_members)
  nextMemberId, \* the next value of the autoincrement group_members.id
  competitions, \* the competitions that have a record       (competitions)
  nextGroupId,  \* the position in GroupIds of the next groups.id
  nextRuleId,   \* the next value of the autoincrement group_scoring_rules.id
  nextInvitationId, \* the next value of the autoincrement group_invitations.id
  teamCompetition,  \* team id -> Null | <<teams.competition_id>>
  matchRefs,    \* match id -> Null | <<[competitionId, homeTeamId,
                \* awayTeamId]>>: the foreign keys of the match
  groupCompetition, \* group -> Null | <<groups.competition_id>>
  nextCompetitionId \* the next value of the autoincrement competitions.id:
                \* "cX", then "c3", an id beyond those carried here

vars == <<matches, predictions, members, rankings, rules, started, call,
          scoredWith, rankBefore, cpArgs, cpResult, groups, invitations,
          nextPredictionId, nextMatchId, teams, memberRows, nextMemberId,
          competitions, nextGroupId, nextRuleId, nextInvitationId,
          teamCompetition, matchRefs, groupCompetition, nextCompetitionId>>
hist == <<scoredWith, rankBefore>>
pure == <<cpArgs, cpResult>>
\* The counters of the autoincrement ids of groups, rules and invitations.
counters == <<nextGroupId, nextRuleId, nextInvitationId>>
\* The foreign-key columns of teams, matches and groups, and the counter of
\* the competition ids.
catalog == <<teamCompetition, matchRefs, groupCompetition, nextCompetitionId>>
other == <<groups, invitations, nextPredictionId, nextMatchId, teams, memberRows,
          nextMemberId, competitions, counters, catalog>>
store == <<matches, predictions, members, rankings, rules>>

\* The unique index predictions(user_id, match_id, group_id) makes the triple a key.
PredKeys == Users \X Matches \X Groups

\* A request that is not running.
IdleCall ==
  [pc |-> "idle", id |-> "mX", match |-> Null, predictions |-> <<>>, i |-> 0,
   points |-> 0, ranking |-> FALSE, groups |-> <<>>, g |-> 0,
   rankings |-> <<>>, r |-> 0, currentRank |-> 0, result |-> "none",
   returned |-> Null, args |-> Null]

\* No call of calculatePoints on its own.
NoArgs ==
  [predictedHome |-> 0, predictedAway |-> 0, actualHome |-> 0, actualAway |-> 0,
   rules |-> <<>>]

\* The rules at the start: each group has the three seed rules.
InitRules == [g \in Groups |-> SeedRows(IF g = "g1" THEN 1 ELSE 4)]

\* The competition and every team have a record, every team, match and
\* group is of that competition, no match was created since the start, both
\* groups exist with the member rows of InitMembers (ids in order of
\* creation, u1 the owner of both groups), and the owner's invitation of u2
\* to g2 is pending.
InitCatalog ==
  /\ nextMatchId = "mX"
  /\ teams = Teams
  /\ memberRows = [g \in Groups |-> [u \in Users |->
       IF g = "g1"
       THEN Some([id |-> IF u = "u1" THEN 1 ELSE IF u = "u2" THEN 2 ELSE 3,
                  role |-> IF u = "u1" THEN "owner" ELSE "member"])
       ELSE IF u = "u1" THEN Some([id |-> 4, role |-> "owner"]) ELSE Null]]
  /\ nextMemberId = 5
  /\ competitions = Competitions
  /\ groups = Groups
  /\ nextGroupId = 3
  /\ nextRuleId = 7
  /\ invitations = [i \in InvitationIds |->
       IF i = 1 THEN Some([status |-> "pending", inviterId |-> "u1"]) ELSE Null]
  /\ nextInvitationId = 2
  /\ teamCompetition = [t \in TeamIds |-> IF t \in Teams THEN Some("c1") ELSE Null]
  /\ matchRefs = [m \in MatchIds |-> IF m \in Matches THEN Some(MatchRefs(m)) ELSE Null]
  /\ groupCompetition = [g \in Groups |-> Some("c1")]
  /\ nextCompetitionId = "cX"

\* Group members at the start: g1 has all three users, g2 has u1 only.
InitMembers ==
  [g \in Groups |-> [u \in Users |->
     IF g = "g1" \/ u = "u1" THEN Some(0) ELSE Null]]

Init ==
  /\ matches = [m \in MatchIds |->
       IF m \in Matches
       THEN Some([status |-> "scheduled", homeScore |-> Null, awayScore |-> Null])
       ELSE Null]
  /\ predictions = [k \in PredKeys |-> Null]
  /\ members = InitMembers
  /\ rankings = [g \in Groups |-> [u \in Users |-> Null]]
  /\ rules = InitRules
  /\ started = [m \in MatchIds |-> FALSE]
  /\ call = [p \in Procs |-> IdleCall]
  /\ scoredWith = [m \in MatchIds |-> <<>>]
  /\ rankBefore = [g \in Groups |-> [u \in Users |-> Null]]
  /\ cpArgs = NoArgs
  /\ cpResult = Null
  /\ nextPredictionId = 1
  /\ InitCatalog

\* The predictions stored earlier, while the matches were scheduled: at most
\* MaxPredictionIds of them, each by a member of its group, all 0-0, with
\* their ids in one order of creation.
InitStored ==
  /\ matches = [m \in MatchIds |->
       IF m \in Matches
       THEN Some([status |-> "scheduled", homeScore |-> Null, awayScore |-> Null])
       ELSE Null]
  /\ \E S \in SUBSET {k \in PredKeys : InitMembers[k[3]][k[1]] # Null} :
       LET ids == CHOOSE f \in [S -> 1..Cardinality(S)] :
                     \A a, b \in S : a # b => f[a] # f[b]
       IN /\ Cardinality(S) <= MaxPredictionIds
          /\ predictions = [k \in PredKeys |->
               IF k \in S
               THEN Some([id |-> ids[k], home |-> 0, away |-> 0,
                          pointsEarned |-> Null])
               ELSE Null]
          /\ nextPredictionId = Cardinality(S) + 1
  /\ members = InitMembers
  /\ rankings = [g \in Groups |-> [u \in Users |-> Null]]
  /\ rules = InitRules
  /\ started = [m \in MatchIds |-> FALSE]
  /\ call = [p \in Procs |-> IdleCall]
  /\ scoredWith = [m \in MatchIds |-> <<>>]
  /\ rankBefore = [g \in Groups |-> [u \in Users |-> Null]]
  /\ cpArgs = NoArgs
  /\ cpResult = Null
  /\ InitCatalog

\* --------------------------------------------------------- storage queries

\* All enumerations of a finite set as a sequence without repetition.
Orderings(S) ==
  {s \in [1..Cardinality(S) -> S] : \A i, j \in 1..Cardinality(S) : s[i] = s[j] => i = j}

\* prisma.prediction.findMany({where: {matchId}}): the keys of the stored
\* predictions of the match.
PredictionsOfMatch(matchId) ==
  {k \in PredKeys : k[2] = matchId /\ predictions[k] # Null}

\* Mutant of RankingRowsOf: the where clause is missing, the rows of every group
\* are returned.
RankingRowsOf_allGroups(groupId) ==
  {id \in Groups \X Users : rankings[id[1]][id[2]] # Null}

\* The ids <<group, user>> of the rows groupRanking.findMany({where: {groupId}}) returns.
RankingRowsOf(groupId) ==
  {id \in Groups \X Users : id[1] = groupId /\ rankings[id[1]][id[2]] # Null}

Row(id) == Val(rankings[id[1]][id[2]])

\* orderBy: {totalPoints: 'desc'}: every order of the rows with totals
\* non-increasing (the order among equal totals is the database's choice).
OrderedByTotalPointsDesc(rows) ==
  {s \in Orderings(rows) :
     \A i \in 1..(Cardinality(rows) - 1) :
        Row(s[i]).totalPoints >= Row(s[i + 1]).totalPoints}

\* [...new Set(predictions.map(p => p.groupId))]: the groups in order of first occurrence.
RECURSIVE DistinctGroups(_)
DistinctGroups(preds) ==
  IF preds = <<>> THEN <<>>
  ELSE LET front == DistinctGroups(SubSeq(preds, 1, Len(preds) - 1))
           grp == preds[Len(preds)].key[3]
       IN IF \E j \in 1..Len(front) : front[j] = grp THEN front ELSE Append(front, grp)

\* The checks at the head of calculatePointsForMatch.
\* Mutant of MatchNotFinished: the status is not checked.
MatchNotFinished_statusUnchecked(match) == match = Null

MatchNotFinished(match) ==
  match = Null \/ Val(match).status # "finished"

\* Mutant of ScoresNotSet: the null check is missing.
ScoresNotSet_unchecked(match) == FALSE

ScoresNotSet(match) ==
  Val(match).homeScore = Null \/ Val(match).awayScore = Null

\* Mutant of RankAt: ranks without gaps (1,1,2): a row that does not tie takes
\* the rank after the previous one.
RankAt_dense(list, r, currentRank) ==
  IF r = 1 THEN 1
  ELSE IF list[r - 1].totalPoints = list[r].totalPoints
       THEN currentRank
       ELSE currentRank + 1

\* The rank updateGroupRankings gives to the row at (1-based) position r of its
\* sorted list: currentRank when the row ties with the one before, else r.
RankAt(list, r, currentRank) ==
  IF r > 1 /\ list[r - 1].totalPoints = list[r].totalPoints
  THEN currentRank
  ELSE r

\* Mutant of PreviousRankOf: the row's previousRank is written back unchanged.
PreviousRankOf_kept(row) == row.previousRank

\* const previousRank = ranking.rank, of the row as read by findMany.
PreviousRankOf(row) == row.rank

\* Mutant of RankingIncremented: correctPredictions is incremented whatever the points.
RankingIncremented_countsAll(row, points) ==
  [row EXCEPT !.totalPoints = @ + points,
              !.totalPredictions = @ + 1,
              !.correctPredictions = @ + 1]

\* groupRanking.update: totalPoints and totalPredictions incremented,
\* correctPredictions incremented when points > 0.
RankingIncremented(row, points) ==
  [row EXCEPT !.totalPoints = @ + points,
              !.totalPredictions = @ + 1,
              !.correctPredictions = IF points > 0 THEN @ + 1 ELSE @]

\* Mutant of RankingCreated: the row counts no prediction.
RankingCreated_noPrediction(points) ==
  [totalPoints |-> points, totalPredictions |-> 0,
   correctPredictions |-> IF points > 0 THEN 1 ELSE 0,
   rank |-> Null, previousRank |-> Null]

\* groupRanking.create: the row of a first scored prediction; rank and
\* previousRank are left null.
RankingCreated(points) ==
  [totalPoints |-> points, totalPredictions |-> 1,
   correctPredictions |-> IF points > 0 THEN 1 ELSE 0,
   rank |-> Null, previousRank |-> Null]

\* groupMember.updateMany increment: no row is changed when the user is no member.
MemberIncremented(member, points) ==
  IF member = Null THEN Null ELSE Some(Val(member) + points)

\* ----------------------------------------------------------------- requests

\* The request ends: only its outcome is kept until the response is sent.
Finish(p, res) ==
  call' = [call EXCEPT ![p] =
             [IdleCall EXCEPT !.pc = "done", !.result = res, !.id = call[p].id,
                              !.args = call[p].args]]

\* A request ends with an error, its arguments kept.
Throw(p, err) ==
  call' = [call EXCEPT ![p] = [@ EXCEPT !.pc = "done", !.result = err]]

\* The value a service method returns, kept until the response is sent.
Return(c, value) ==
  [IdleCall EXCEPT !.pc = "done", !.result = "ok", !.id = c.id,
                   !.returned = Some(value), !.args = c.args]

\* errorHandler: a ZodError is answered 422, a Prisma unique-constraint error
\* (P2002) 409 and a Prisma record-not-found error (P2025) 404; an AppError
\* has no branch of its own and falls to the default, 500, as does any other
\* error.
errorHandler(err) ==
  IF err = "VALIDATION" THEN 422
  ELSE IF err = "CONFLICT" THEN 409
  ELSE IF err = "RECORD_NOT_FOUND" THEN 404
  ELSE 500

\* sendSuccess(res, data, message, statusCode = 200) of the route of request
\* c; the routes that create a prediction, a match, a group, an invitation, a
\* team or a competition pass 201.
sendSuccess(c) ==
  IF /\ c.args # Null
     /\ Val(c.args).op \in {"createPrediction", "createMatch", "createGroup",
                            "createInvitation", "createTeam", "createCompetition"}
  THEN 201 ELSE 200

\* The status of the response to request c: sendSuccess, or next(error).
ResponseStatus(c) ==
  IF c.result = "ok" THEN sendSuccess(c) ELSE errorHandler(c.result)

\* The number of finalizations so far, over all matches.
RECURSIVE SumLen(_, _)
SumLen(f, S) ==
  IF S = {} THEN 0
  ELSE LET x == CHOOSE y \in S : TRUE IN Len(f[x]) + SumLen(f, S \ {x})

\* A request that may finalize is started only while fewer than MaxFinalize
\* finalizations have been started.
MayFinalize == SumLen(scoredWith, MatchIds) < MaxFinalize

\* The results a score request carries here: 0-0, 1-0, 1-1, or both scores null
\* (the route passes req.body's homeScore and awayScore on unvalidated).
ResultInputs ==
  {<<Null, Null>>, <<Some(0), Some(0)>>, <<Some(1), Some(0)>>, <<Some(1), Some(1)>>}

\* The unique index predictions_user_id_match_id_group_id_key is dropped.
UniqueViolation_noIndex(key) == FALSE

\* predictions_user_id_match_id_group_id_key: an insert of a triple that has a
\* row is refused (Prisma error P2002).
UniqueViolation(key) == predictions[key] # Null

\* createPrediction: prisma.match.findUnique, then the checks of the match.
\* The request is started only while a prediction id is left for it and for
\* the requests inside createPrediction.
cp_findMatch(p, userId, matchId, groupId, home, away) ==
  /\ call[p].pc = "idle"
  /\ nextPredictionId
       + Cardinality({q \in Procs : call[q].pc \in
                        {"cp_findMember", "cp_findExisting", "cp_create"}})
       <= MaxPredictionIds
  /\ LET c == [IdleCall EXCEPT !.args =
                 Some([op |-> "createPrediction", userId |-> userId,
                       key |-> <<userId, matchId, groupId>>,
                       home |-> home, away |-> away])]
     IN call' = [call EXCEPT ![p] =
          IF matches[matchId] = Null
          THEN [c EXCEPT !.pc = "done", !.result = "NOT_FOUND"]
          ELSE IF started[matchId] \/ Val(matches[matchId]).status # "scheduled"
          THEN [c EXCEPT !.pc = "done", !.result = "BAD_REQUEST"]
          ELSE [c EXCEPT !.pc = "cp_findMember"]]
  /\ UNCHANGED <<store, started, pure, other, hist>>

\* createPrediction: prisma.groupMember.findFirst and the 403.
cp_findMember(p) ==
  LET key == Val(call[p].args).key
  IN /\ call[p].pc = "cp_findMember"
     /\ IF members[key[3]][key[1]] = Null
        THEN Throw(p, "FORBIDDEN")
        ELSE call' = [call EXCEPT ![p].pc = "cp_findExisting"]
     /\ UNCHANGED <<store, started, pure, other, hist>>

\* createPrediction: prisma.prediction.findFirst and the AppError 409.
cp_findExisting(p) ==
  LET key == Val(call[p].args).key
  IN /\ call[p].pc = "cp_findExisting"
     /\ IF predictions[key] # Null
        THEN Throw(p, "ALREADY_EXISTS")
        ELSE call' = [call EXCEPT ![p].pc = "cp_create"]
     /\ UNCHANGED <<store, started, pure, other, hist>>

\* createPrediction: prisma.prediction.create, refused by the unique index
\* when the triple has a row by now (P2002) and by predictions_match_id_fkey
\* or predictions_group_id_fkey when the match or the group was deleted since
\* the checks (P2003).
cp_create(p) ==
  LET a == Val(call[p].args)
      row == [id |-> nextPredictionId, home |-> a.home, away |-> a.away,
              pointsEarned |-> Null]
  IN /\ call[p].pc = "cp_create"
     /\ IF UniqueViolation(a.key)
        THEN /\ Throw(p, "CONFLICT")
             /\ UNCHANGED <<predictions, nextPredictionId>>
        ELSE IF matches[a.key[2]] = Null \/ a.key[3] \notin groups
        THEN /\ Throw(p, "FOREIGN_KEY")
             /\ UNCHANGED <<predictions, nextPredictionId>>
        ELSE /\ predictions' = [predictions EXCEPT ![a.key] = Some(row)]
             /\ nextPredictionId' = nextPredictionId + 1
             /\ call' = [call EXCEPT ![p] = Return(call[p], row)]
     /\ UNCHANGED <<matches, members, rankings, rules, started, pure, hist,
                    groups, invitations, nextMatchId, teams, memberRows,
                    nextMemberId, competitions, counters, catalog>>

\* MatchService.updateScore(id, ...): prisma.match.findUnique and the 404.
updateScore_find(p, id) ==
  /\ call[p].pc = "idle"
  /\ MayFinalize
  /\ IF matches[id] = Null
     THEN call' = [call EXCEPT ![p] =
                     [IdleCall EXCEPT !.pc = "done", !.result = "NOT_FOUND", !.id = id]]
     ELSE call' = [call EXCEPT ![p] = [IdleCall EXCEPT !.pc = "us_update", !.id = id]]
  /\ UNCHANGED <<store, started, pure, other, hist>>

\* MatchService.updateScore(id, homeScore, awayScore, status): prisma.match.update
\* (P2025 when the match is gone by now), the broadcast, and the test of
\* updated.status that decides whether calculatePointsForMatch is called.  The
\* request's homeScore, awayScore and status are first used here, so the model
\* draws them here.
updateScore_update(p, homeScore, awayScore, status) ==
  LET c == call[p]
      newStatus == IF status = Null THEN "finished" ELSE Val(status)
  IN /\ c.pc = "us_update"
     /\ IF matches[c.id] = Null
        THEN /\ Finish(p, "RECORD_NOT_FOUND")
             /\ UNCHANGED matches
        ELSE /\ matches' = [matches EXCEPT ![c.id] =
                              Some([status |-> newStatus, homeScore |-> homeScore,
                                    awayScore |-> awayScore])]
             /\ IF newStatus = "finished"
                THEN call' = [call EXCEPT ![p] =
                                [IdleCall EXCEPT !.pc = "calc_find", !.id = c.id]]
                ELSE Finish(p, "ok")
     /\ UNCHANGED <<predictions, members, rankings, rules, started, pure, other, hist>>

\* PredictionService.calculatePointsForMatch called on its own.
calculatePointsForMatch_call(p, id) ==
  /\ call[p].pc = "idle"
  /\ MayFinalize
  /\ call' = [call EXCEPT ![p] = [IdleCall EXCEPT !.pc = "calc_find", !.id = id]]
  /\ UNCHANGED <<store, started, pure, other, hist>>

\* calculatePointsForMatch: prisma.match.findUnique and the two precondition checks.
calc_find(p) ==
  LET c == call[p]
      match == matches[c.id]
  IN /\ c.pc = "calc_find"
     /\ IF MatchNotFinished(match)
        THEN Finish(p, "BAD_REQUEST")
        ELSE IF ScoresNotSet(match)
             THEN Finish(p, "BAD_REQUEST")
             ELSE call' = [call EXCEPT ![p].pc = "calc_findMany", ![p].match = match]
     /\ UNCHANGED <<store, started, pure, other, hist>>

\* calculatePointsForMatch: prisma.prediction.findMany with each group's rules.
calc_findMany(p) ==
  LET c == call[p]
  IN /\ c.pc = "calc_findMany"
     /\ \E order \in Orderings(PredictionsOfMatch(c.id)) :
          LET preds == [j \in 1..Len(order) |->
                          [key |-> order[j],
                           id |-> Val(predictions[order[j]]).id,
                           home |-> Val(predictions[order[j]]).home,
                           away |-> Val(predictions[order[j]]).away,
                           rules |-> rules[order[j][3]]]]
          IN IF preds = <<>>
             THEN call' = [call EXCEPT ![p] =
                    Return(c, [message |-> "Points calculated successfully"])]
             ELSE call' = [call EXCEPT ![p].pc = "pred_update",
                                       ![p].predictions = preds, ![p].i = 1]
     /\ scoredWith' = [scoredWith EXCEPT ![c.id] =
                         Append(@, <<Val(Val(c.match).homeScore), Val(Val(c.match).awayScore)>>)]
     /\ UNCHANGED <<store, started, pure, other, rankBefore>>

\* The loop body, first write: prisma.prediction.update({where: {id},
\* data: {pointsEarned: points}}), P2025 when the row with the id is gone.
pred_update(p) ==
  LET c == call[p]
      pr == c.predictions[c.i]
      points == calculatePoints(pr.home, pr.away, Val(Val(c.match).homeScore),
                                Val(Val(c.match).awayScore), pr.rules)
  IN /\ c.pc = "pred_update"
     /\ IF predictions[pr.key] = Null \/ Val(predictions[pr.key]).id # pr.id
        THEN /\ Finish(p, "RECORD_NOT_FOUND")
             /\ UNCHANGED predictions
        ELSE /\ predictions' = [predictions EXCEPT ![pr.key] =
                                  Some([Val(@) EXCEPT !.pointsEarned = Some(points)])]
             /\ call' = [call EXCEPT ![p].pc = "member_update", ![p].points = points]
     /\ UNCHANGED <<matches, members, rankings, rules, started, pure, other, hist>>

\* Second write: prisma.groupMember.updateMany({totalPoints: {increment: points}}).
member_update(p) ==
  LET c == call[p]
      key == c.predictions[c.i].key
  IN /\ c.pc = "member_update"
     /\ members' = [members EXCEPT ![key[3]][key[1]] = MemberIncremented(@, c.points)]
     /\ call' = [call EXCEPT ![p].pc = "ranking_find"]
     /\ UNCHANGED <<matches, predictions, rankings, rules, started, pure, other, hist>>

\* prisma.groupRanking.findFirst({where: {groupId, userId}}).
ranking_find(p) ==
  LET c == call[p]
      key == c.predictions[c.i].key
  IN /\ c.pc = "ranking_find"
     /\ call' = [call EXCEPT ![p].pc = "ranking_write",
                             ![p].ranking = (rankings[key[3]][key[1]] # Null)]
     /\ UNCHANGED <<store, started, pure, other, hist>>

\* The request after the writes of prediction c.i: the next prediction, or the
\* re-ranking of the groups touched.
AfterPrediction(c) ==
  IF c.i < Len(c.predictions)
  THEN [c EXCEPT !.pc = "pred_update", !.i = c.i + 1, !.points = 0, !.ranking = FALSE]
  ELSE [c EXCEPT !.pc = "ugr_find", !.points = 0, !.ranking = FALSE,
                 !.groups = DistinctGroups(c.predictions), !.g = 1]

\* Third write: prisma.groupRanking.update (increments) when findFirst found a
\* row, P2025 when the row went with its group since; else
\* prisma.groupRanking.create, which the unique index
\* group_rankings(group_id, user_id) rejects when a row exists by now (P2002)
\* and group_rankings_group_id_fkey when the group is gone (P2003).
ranking_write(p) ==
  LET c == call[p]
      key == c.predictions[c.i].key
      row == rankings[key[3]][key[1]]
  IN /\ c.pc = "ranking_write"
     /\ IF c.ranking
        THEN IF row = Null
             THEN /\ Finish(p, "RECORD_NOT_FOUND")
                  /\ UNCHANGED rankings
             ELSE /\ rankings' = [rankings EXCEPT ![key[3]][key[1]] =
                                     Some(RankingIncremented(Val(@), c.points))]
                  /\ call' = [call EXCEPT ![p] = AfterPrediction(c)]
        ELSE IF row # Null
             THEN /\ Finish(p, "CONFLICT")
                  /\ UNCHANGED rankings
             ELSE IF key[3] \notin groups
             THEN /\ Finish(p, "FOREIGN_KEY")
                  /\ UNCHANGED rankings
             ELSE /\ rankings' = [rankings EXCEPT ![key[3]][key[1]] =
                                     Some(RankingCreated(c.points))]
                  /\ call' = [call EXCEPT ![p] = AfterPrediction(c)]
     /\ UNCHANGED <<matches, predictions, members, rules, started, pure, other, hist>>

\* The request after the re-ranking of group c.g: the next group, or the return.
AfterGroup(c) ==
  IF c.g < Len(c.groups)
  THEN [c EXCEPT !.pc = "ugr_find", !.g = c.g + 1, !.rankings = <<>>, !.r = 0,
                 !.currentRank = 0]
  ELSE Return(c, [message |-> "Points calculated successfully"])

\* updateGroupRankings: prisma.groupRanking.findMany ordered by totalPoints desc.
ugr_find(p) ==
  LET c == call[p]
  IN /\ c.pc = "ugr_find"
     /\ \E order \in OrderedByTotalPointsDesc(RankingRowsOf(c.groups[c.g])) :
          LET list == [j \in 1..Len(order) |->
                         [id |-> order[j], totalPoints |-> Row(order[j]).totalPoints,
                          rank |-> Row(order[j]).rank,
                          previousRank |-> Row(order[j]).previousRank]]
          IN IF list = <<>>
             THEN call' = [call EXCEPT ![p] = AfterGroup(c)]
             ELSE call' = [call EXCEPT ![p].pc = "ugr_write", ![p].rankings = list,
                                       ![p].r = 1, ![p].currentRank = 1]
     /\ rankBefore' = [rankBefore EXCEPT ![c.groups[c.g]] =
                         [u \in Users |->
                            IF rankings[c.groups[c.g]][u] = Null THEN Null
                            ELSE Val(rankings[c.groups[c.g]][u]).rank]]
     /\ UNCHANGED <<store, started, pure, other, scoredWith>>

\* updateGroupRankings, one pass of the loop: prisma.groupRanking.update of
\* rank and previousRank of the row at position c.r, P2025 when the row went
\* with its group since the findMany.
ugr_write(p) ==
  LET c == call[p]
      row == c.rankings[c.r]
      newRank == RankAt(c.rankings, c.r, c.currentRank)
  IN /\ c.pc = "ugr_write"
     /\ IF rankings[row.id[1]][row.id[2]] = Null
        THEN /\ Finish(p, "RECORD_NOT_FOUND")
             /\ UNCHANGED rankings
        ELSE /\ rankings' = [rankings EXCEPT ![row.id[1]][row.id[2]] =
                               Some([Val(@) EXCEPT !.rank = Some(newRank),
                                                   !.previousRank = PreviousRankOf(row)])]
             /\ IF c.r < Len(c.rankings)
                THEN call' = [call EXCEPT ![p].r = c.r + 1, ![p].currentRank = newRank]
                ELSE call' = [call EXCEPT ![p] = AfterGroup(c)]
     /\ UNCHANGED <<matches, predictions, members, rules, started, pure, other, hist>>

\* The route handler sends the response (sendSuccess, or next(error)).
respond(p) ==
  /\ call[p].pc = "done"
  /\ call' = [call EXCEPT ![p] = IdleCall]
  /\ UNCHANGED <<store, started, pure, other, hist>>

\* One step of request p inside calculatePointsForMatch.
StepCalc(p) ==
  \/ calc_find(p)
  \/ calc_findMany(p)
  \/ pred_update(p)
  \/ member_update(p)
  \/ ranking_find(p)
  \/ ranking_write(p)
  \/ ugr_find(p)
  \/ ugr_write(p)

\* One step of request p inside or into a score request, its inputs drawn
\* from the given sets.
StepScore(p, ids, results, statuses) ==
  \/ \E id \in ids : updateScore_find(p, id)
  \/ \E res \in results, st \in statuses :
        updateScore_update(p, res[1], res[2], st)
  \/ \E id \in ids : calculatePointsForMatch_call(p, id)
  \/ StepCalc(p)
  \/ respond(p)

\* One step of request p, the routes passing no status.
Step(p) == StepScore(p, MatchIds, ResultInputs, {Null})

\* The prediction requests that arrive along with the score requests: of u1
\* and u2, for m1 in g1.
PredUsers == {"u1", "u2"}
PredMatch == "m1"
PredGroup == "g1"

\* One step of request p inside or into createPrediction.
StepCreate(p) ==
  \/ \E u \in PredUsers : cp_findMatch(p, u, PredMatch, PredGroup, 0, 0)
  \/ cp_findMember(p)
  \/ cp_findExisting(p)
  \/ cp_create(p)
  \/ respond(p)

\* Request 1 carries the score requests and request 2 the prediction
\* requests; the two interleave at their storage calls.
Next ==
  \/ StepCreate(2)
  \/ Step(1)

Spec == InitStored /\ [][Next]_vars

\* A storage write of calculatePointsForMatch or updateGroupRankings throws: the
\* write has no effect and the exception ends the request.  The outcome records
\* the prediction being scored (none when the re-ranking failed).
writeFails(p) ==
  /\ call[p].pc \in {"pred_update", "member_update", "ranking_write", "ugr_write"}
  /\ call' = [call EXCEPT ![p] =
       [IdleCall EXCEPT !.pc = "done", !.result = "STORAGE_ERROR", !.id = call[p].id,
                        !.predictions =
                           IF call[p].pc = "ugr_write" THEN <<>>
                           ELSE <<call[p].predictions[call[p].i]>>]]
  /\ UNCHANGED <<store, started, pure, other, hist>>

\* A storage write of the score request may fail.
NextFail ==
  \/ StepCreate(2)
  \/ Step(1)
  \/ writeFails(1)

\* The predictions stored when two score requests arrive together, all 0-0 and
\* in group g1: u1's on m1, and on m2 that of u1 (the same user) or of u2.
ConcKeys(u) == {<<"u1", "m1", "g1">>, <<u, "m2", "g1">>}

InitConc ==
  /\ matches = [m \in MatchIds |->
       IF m \in Matches
       THEN Some([status |-> "scheduled", homeScore |-> Null, awayScore |-> Null])
       ELSE Null]
  /\ \E u \in {"u1", "u2"} :
       predictions = [k \in PredKeys |->
          IF k \in ConcKeys(u)
          THEN Some([id |-> IF k[2] = "m1" THEN 1 ELSE 2,
                     home |-> 0, away |-> 0, pointsEarned |-> Null])
          ELSE Null]
  /\ members = InitMembers
  /\ rankings = [g \in Groups |-> [u \in Users |-> Null]]
  /\ rules = InitRules
  /\ started = [m \in MatchIds |-> FALSE]
  /\ call = [p \in Procs |-> IdleCall]
  /\ scoredWith = [m \in MatchIds |-> <<>>]
  /\ rankBefore = [g \in Groups |-> [u \in Users |-> Null]]
  /\ cpArgs = NoArgs
  /\ cpResult = Null
  /\ nextPredictionId = 3
  /\ InitCatalog

\* A write of the score request may fail; the predictions were stored before.
SpecFail == InitConc /\ [][NextFail]_vars

\* Two requests are served concurrently, interleaved at their storage calls.
NextConc ==
  \/ Step(1)
  \/ Step(2)

SpecConc == InitConc /\ [][NextConc]_vars

\* ------------------------------------------------- match administration

\* The body of PUT /api/matches/:id, which the route passes to
\* prisma.match.update unvalidated: each field is absent (Null) or present
\* with the value to store; scheduledDate is a date before or after now.
MatchData(status, homeScore, awayScore, scheduledDate) ==
  [status |-> status, homeScore |-> homeScore, awayScore |-> awayScore,
   scheduledDate |-> scheduledDate]

\* The bodies sent here: a status alone, 'finished' with a score of 1-0, the
\* score 1-0 alone, a scheduled date alone.
MatchBodies ==
  {MatchData(Some(st), Null, Null, Null) :
     st \in {"scheduled", "live", "finished", "postponed", "cancelled"}}
  \cup {MatchData(Some("finished"), Some(Some(1)), Some(Some(0)), Null),
        MatchData(Null, Some(Some(1)), Some(Some(0)), Null),
        MatchData(Null, Null, Null, Some("past")),
        MatchData(Null, Null, Null, Some("future"))}

\* prisma.match.update({where: {id}, data}): the row with the fields of data.
MatchUpdated(row, data) ==
  [status |-> IF data.status = Null THEN row.status ELSE Val(data.status),
   homeScore |-> IF data.homeScore = Null THEN row.homeScore ELSE Val(data.homeScore),
   awayScore |-> IF data.awayScore = Null THEN row.awayScore ELSE Val(data.awayScore)]

\* Whether the scheduled date of match m has passed once data is stored.
StartedAfter(m, data) ==
  IF data.scheduledDate = Null THEN started[m] ELSE Val(data.scheduledDate) = "past"

\* The request p as it enters a method of MatchService or TeamService.
MatchCall(op, id, data) ==
  [IdleCall EXCEPT !.id = id, !.args = Some([op |-> op, data |-> data])]

\* MatchService.updateMatch(id, data): prisma.match.findUnique of the old
\* status (kept for the broadcast; a missing match is not an error here).
um_find(p, id, data) ==
  /\ call[p].pc = "idle"
  /\ call' = [call EXCEPT ![p] =
                [MatchCall("updateMatch", id, data) EXCEPT !.pc = "um_update"]]
  /\ UNCHANGED <<store, started, pure, other, hist>>

\* MatchService.updateMatch: prisma.match.update of whatever data holds, P2025
\* when the match has no record.
um_update(p) ==
  LET c == call[p]
      data == Val(c.args).data
  IN /\ c.pc = "um_update"
     /\ IF matches[c.id] = Null
        THEN /\ Throw(p, "RECORD_NOT_FOUND")
             /\ UNCHANGED <<matches, started>>
        ELSE /\ matches' = [matches EXCEPT ![c.id] =
                              Some(MatchUpdated(Val(@), data))]
             /\ started' = [started EXCEPT ![c.id] = StartedAfter(c.id, data)]
             /\ call' = [call EXCEPT ![p] =
                           Return(c, MatchUpdated(Val(matches[c.id]), data))]
     /\ UNCHANGED <<predictions, members, rankings, rules, pure, other, hist>>

\* The second MatchService of the file, updateMatch(id, data): prisma.match.update
\* alone.
um2_update(p, id, data) ==
  LET c == MatchCall("updateMatch", id, data)
  IN /\ call[p].pc = "idle"
     /\ IF matches[id] = Null
        THEN /\ call' = [call EXCEPT ![p] =
                           [c EXCEPT !.pc = "done", !.result = "RECORD_NOT_FOUND"]]
             /\ UNCHANGED <<matches, started>>
        ELSE /\ matches' = [matches EXCEPT ![id] = Some(MatchUpdated(Val(@), data))]
             /\ started' = [started EXCEPT ![id] = StartedAfter(id, data)]
             /\ call' = [call EXCEPT ![p] =
                           Return(c, MatchUpdated(Val(matches[id]), data))]
     /\ UNCHANGED <<predictions, members, rankings, rules, pure, other, hist>>

\* The second MatchService of the file, updateScore(id, homeScore, awayScore):
\* prisma.match.findUnique and the 404.
us2_find(p, id) ==
  /\ call[p].pc = "idle"
  /\ MayFinalize
  /\ IF matches[id] = Null
     THEN call' = [call EXCEPT ![p] =
                     [IdleCall EXCEPT !.pc = "done", !.result = "NOT_FOUND", !.id = id]]
     ELSE call' = [call EXCEPT ![p] = [IdleCall EXCEPT !.pc = "us2_update", !.id = id]]
  /\ UNCHANGED <<store, started, pure, other, hist>>

\* The second updateScore: prisma.match.update with status 'finished' always,
\* then calculatePointsForMatch.
us2_update(p, homeScore, awayScore) ==
  LET c == call[p]
  IN /\ c.pc = "us2_update"
     /\ IF matches[c.id] = Null
        THEN /\ Finish(p, "RECORD_NOT_FOUND")
             /\ UNCHANGED matches
        ELSE /\ matches' = [matches EXCEPT ![c.id] =
                              Some([status |-> "finished", homeScore |-> homeScore,
                                    awayScore |-> awayScore])]
             /\ call' = [call EXCEPT ![p] =
                           [IdleCall EXCEPT !.pc = "calc_find", !.id = c.id]]
     /\ UNCHANGED <<predictions, members, rankings, rules, started, pure, other, hist>>

\* The rows the foreign keys refs of a match refer to exist: its competition
\* and its two teams.
RefsExist(refs) ==
  /\ refs.competitionId \in competitions
  /\ refs.homeTeamId \in teams
  /\ refs.awayTeamId \in teams

\* MatchService.createMatch(data): prisma.match.create with status 'scheduled'
\* and the next id, refused by a foreign key when the competition or a team
\* of data has no record (P2003).  One match is created: the ids beyond "mX"
\* are not carried.
createMatch(p, scheduledDate) ==
  LET id == nextMatchId
      c == MatchCall("createMatch", id, MatchData(Null, Null, Null, Some(scheduledDate)))
      row == [status |-> "scheduled", homeScore |-> Null, awayScore |-> Null]
  IN /\ call[p].pc = "idle"
     /\ nextMatchId \in MatchIds
     /\ IF ~RefsExist(MatchRefs(id))
        THEN /\ call' = [call EXCEPT ![p] =
                           [c EXCEPT !.pc = "done", !.result = "FOREIGN_KEY"]]
             /\ UNCHANGED <<matches, started, nextMatchId, matchRefs>>
        ELSE /\ matches' = [matches EXCEPT ![id] = Some(row)]
             /\ matchRefs' = [matchRefs EXCEPT ![id] = Some(MatchRefs(id))]
             /\ started' = [started EXCEPT ![id] = (scheduledDate = "past")]
             /\ nextMatchId' = "m4"
             /\ call' = [call EXCEPT ![p] = Return(c, row)]
     /\ UNCHANGED <<predictions, members, rankings, rules, pure, groups, invitations,
                    nextPredictionId, teams, memberRows, nextMemberId, competitions,
                    counters, teamCompetition, groupCompetition, nextCompetitionId,
                    hist>>

\* ON DELETE CASCADE of predictions.match_id and predictions.group_id: the
\* predictions left when the matches and the groups given are deleted.
PredictionsWithout(goneMatches, goneGroups) ==
  [k \in PredKeys |->
     IF k[2] \in goneMatches \/ k[3] \in goneGroups THEN Null ELSE predictions[k]]

\* ON DELETE CASCADE of the foreign keys to groups.id: the groups in gone are
\* deleted and their member, ranking, rule and invitation rows go with them.
GroupsDeleted(gone) ==
  /\ groups' = groups \ gone
  /\ groupCompetition' = [g \in Groups |->
                            IF g \in gone THEN Null ELSE groupCompetition[g]]
  /\ members' = [g \in Groups |->
                   IF g \in gone THEN [u \in Users |-> Null] ELSE members[g]]
  /\ memberRows' = [g \in Groups |->
                      IF g \in gone THEN [u \in Users |-> Null] ELSE memberRows[g]]
  /\ rankings' = [g \in Groups |->
                    IF g \in gone THEN [u \in Users |-> Null] ELSE rankings[g]]
  /\ rules' = [g \in Groups |-> IF g \in gone THEN <<>> ELSE rules[g]]
  /\ invitations' = IF InviteGroup \in gone
                    THEN [i \in InvitationIds |-> Null] ELSE invitations

\* MatchService.deleteMatch(id): prisma.match.delete, P2025 when the match has
\* no record; the predictions of the match go with it.
deleteMatch(p, id) ==
  LET c == MatchCall("deleteMatch", id, MatchData(Null, Null, Null, Null))
  IN /\ call[p].pc = "idle"
     /\ IF matches[id] = Null
        THEN /\ call' = [call EXCEPT ![p] =
                           [c EXCEPT !.pc = "done", !.result = "RECORD_NOT_FOUND"]]
             /\ UNCHANGED <<matches, predictions, started, matchRefs>>
        ELSE /\ matches' = [matches EXCEPT ![id] = Null]
             /\ matchRefs' = [matchRefs EXCEPT ![id] = Null]
             /\ predictions' = PredictionsWithout({id}, {})
             /\ started' = [started EXCEPT ![id] = FALSE]
             /\ call' = [call EXCEPT ![p] =
                           Return(c, [message |-> "Match deleted successfully"])]
     /\ UNCHANGED <<members, rankings, rules, pure, groups, invitations,
                    nextPredictionId, nextMatchId, teams, memberRows, nextMemberId,
                    competitions, counters, teamCompetition, groupCompetition,
                    nextCompetitionId, hist>>

\* The stored matches that refer to one of the teams given.
MatchesOfTeams(ts) ==
  {m \in MatchIds : /\ matchRefs[m] # Null
                    /\ {Val(matchRefs[m]).homeTeamId,
                        Val(matchRefs[m]).awayTeamId} \cap ts # {}}

\* TeamService.deleteTeam(id): prisma.team.delete, P2025 when the team has no
\* record; ON DELETE CASCADE of matches.home_team_id and away_team_id deletes
\* the matches of the team, and with them their predictions.
deleteTeam(p, team) ==
  LET c == [IdleCall EXCEPT !.args = Some([op |-> "deleteTeam", team |-> team])]
      gone == MatchesOfTeams({team})
  IN /\ call[p].pc = "idle"
     /\ IF team \notin teams
        THEN /\ call' = [call EXCEPT ![p] =
                           [c EXCEPT !.pc = "done", !.result = "RECORD_NOT_FOUND"]]
             /\ UNCHANGED <<matches, predictions, started, teams, teamCompetition,
                            matchRefs>>
        ELSE /\ teams' = teams \ {team}
             /\ teamCompetition' = [teamCompetition EXCEPT ![team] = Null]
             /\ matches' = [m \in MatchIds |-> IF m \in gone THEN Null ELSE matches[m]]
             /\ matchRefs' = [m \in MatchIds |->
                                IF m \in gone THEN Null ELSE matchRefs[m]]
             /\ predictions' = PredictionsWithout(gone, {})
             /\ started' = [m \in MatchIds |-> IF m \in gone THEN FALSE ELSE started[m]]
             /\ call' = [call EXCEPT ![p] =
                           Return(c, [message |-> "Team deleted successfully"])]
     /\ UNCHANGED <<members, rankings, rules, pure, groups, invitations,
                    nextPredictionId, nextMatchId, memberRows, nextMemberId,
                    competitions, counters, groupCompetition, nextCompetitionId,
                    hist>>

\* TeamService.createTeam(data): prisma.team.create of the body, which the
\* route passes on unvalidated: with an id the row is stored under it, P2002
\* when a team has that id; without one the row is given an id beyond those
\* carried here.  A body without the required competitionId is refused by
\* the client (PrismaClientValidationError) and teams_competition_id_fkey
\* refuses a competition without a record (P2003).
createTeam(p, data) ==
  LET c == [IdleCall EXCEPT !.args = Some([op |-> "createTeam", data |-> data])]
      err == IF data.competitionId = Null THEN "INVALID_DATA"
             ELSE IF data.id # Null /\ Val(data.id) \in teams THEN "CONFLICT"
             ELSE IF Val(data.competitionId) \notin competitions THEN "FOREIGN_KEY"
             ELSE "ok"
  IN /\ call[p].pc = "idle"
     /\ IF err # "ok"
        THEN /\ call' = [call EXCEPT ![p] = [c EXCEPT !.pc = "done", !.result = err]]
             /\ UNCHANGED <<teams, teamCompetition>>
        ELSE /\ teams' = IF data.id = Null THEN teams ELSE teams \cup {Val(data.id)}
             /\ teamCompetition' =
                  IF data.id = Null THEN teamCompetition
                  ELSE [teamCompetition EXCEPT ![Val(data.id)] = data.competitionId]
             /\ call' = [call EXCEPT ![p] = Return(c, data)]
     /\ UNCHANGED <<store, started, pure, groups, invitations, nextPredictionId,
                    nextMatchId, memberRows, nextMemberId, competitions, counters,
                    matchRefs, groupCompetition, nextCompetitionId, hist>>

\* TeamService.updateTeam(id, data): prisma.team.update of whatever the body
\* holds, which the route passes on unvalidated: P2025 when the team has no
\* record, P2002 when data.id is the id of another team, P2003 when
\* data.competitionId has no record.  ON UPDATE CASCADE of
\* matches.home_team_id and away_team_id carries a new id into the matches of
\* the team.
updateTeam(p, id, data) ==
  LET c == [IdleCall EXCEPT !.args =
              Some([op |-> "updateTeam", team |-> id, data |-> data])]
      newId == IF data.id = Null THEN id ELSE Val(data.id)
      competitionId == IF data.competitionId = Null THEN Val(teamCompetition[id])
                       ELSE Val(data.competitionId)
      err == IF id \notin teams THEN "RECORD_NOT_FOUND"
             ELSE IF newId # id /\ newId \in teams THEN "CONFLICT"
             ELSE IF competitionId \notin competitions THEN "FOREIGN_KEY"
             ELSE "ok"
  IN /\ call[p].pc = "idle"
     /\ IF err # "ok"
        THEN /\ call' = [call EXCEPT ![p] = [c EXCEPT !.pc = "done", !.result = err]]
             /\ UNCHANGED <<teams, teamCompetition, matchRefs>>
        ELSE /\ teams' = (teams \ {id}) \cup {newId}
             /\ teamCompetition' = [t \in TeamIds |->
                  IF t = newId THEN Some(competitionId)
                  ELSE IF t = id THEN Null
                  ELSE teamCompetition[t]]
             /\ matchRefs' = [m \in MatchIds |->
                  IF matchRefs[m] = Null THEN Null
                  ELSE Some([Val(matchRefs[m]) EXCEPT
                               !.homeTeamId = IF @ = id THEN newId ELSE @,
                               !.awayTeamId = IF @ = id THEN newId ELSE @])]
             /\ call' = [call EXCEPT ![p] =
                  Return(c, [id |-> newId, competitionId |-> competitionId])]
     /\ UNCHANGED <<store, started, pure, groups, invitations, nextPredictionId,
                    nextMatchId, memberRows, nextMemberId, competitions, counters,
                    groupCompetition, nextCompetitionId, hist>>

\* CompetitionService.createCompetition(data): prisma.competition.create of
\* the body, which the route passes on unvalidated.  Without an id the row is
\* given the next id, which is beyond "cX" once that id has a row; with one
\* it is stored under it, P2002 when a competition has that id.  One
\* competition is created without an id: the ids beyond "cX" are not carried.
createCompetition(p, data) ==
  LET c == [IdleCall EXCEPT !.args = Some([op |-> "createCompetition", data |-> data])]
      id == IF data.id # Null THEN Val(data.id)
            ELSE IF nextCompetitionId \in competitions THEN "c3"
            ELSE nextCompetitionId
  IN /\ call[p].pc = "idle"
     /\ data.id = Null => nextCompetitionId \in CompetitionIds
     /\ IF id \in competitions
        THEN /\ call' = [call EXCEPT ![p] =
                           [c EXCEPT !.pc = "done", !.result = "CONFLICT"]]
             /\ UNCHANGED <<competitions, nextCompetitionId>>
        ELSE /\ competitions' = competitions \cup ({id} \cap CompetitionIds)
             /\ nextCompetitionId' =
                  IF data.id = Null \/ id = nextCompetitionId THEN "c3"
                  ELSE nextCompetitionId
             /\ call' = [call EXCEPT ![p] = Return(c, [id |-> id])]
     /\ UNCHANGED <<store, started, pure, groups, invitations, nextPredictionId,
                    nextMatchId, teams, memberRows, nextMemberId, counters,
                    teamCompetition, matchRefs, groupCompetition, hist>>

\* CompetitionService.updateCompetition(id, data): prisma.competition.update
\* of whatever the body holds, which the route passes on unvalidated: P2025
\* when the competition has no record, P2002 when data.id is the id of
\* another competition.  ON UPDATE CASCADE of teams.competition_id,
\* matches.competition_id and groups.competition_id carries a new id into the
\* teams, matches and groups of the competition.
updateCompetition(p, id, data) ==
  LET c == [IdleCall EXCEPT !.args =
              Some([op |-> "updateCompetition", competitionId |-> id, data |-> data])]
      newId == IF data.id = Null THEN id ELSE Val(data.id)
      err == IF id \notin competitions THEN "RECORD_NOT_FOUND"
             ELSE IF newId # id /\ newId \in competitions THEN "CONFLICT"
             ELSE "ok"
  IN /\ call[p].pc = "idle"
     /\ IF err # "ok"
        THEN /\ call' = [call EXCEPT ![p] = [c EXCEPT !.pc = "done", !.result = err]]
             /\ UNCHANGED <<competitions, teamCompetition, matchRefs, groupCompetition>>
        ELSE /\ competitions' = (competitions \ {id}) \cup {newId}
             /\ teamCompetition' = [t \in TeamIds |->
                  IF teamCompetition[t] = Some(id) THEN Some(newId)
                  ELSE teamCompetition[t]]
             /\ matchRefs' = [m \in MatchIds |->
                  IF matchRefs[m] # Null /\ Val(matchRefs[m]).competitionId = id
                  THEN Some([Val(matchRefs[m]) EXCEPT !.competitionId = newId])
                  ELSE matchRefs[m]]
             /\ groupCompetition' = [g \in Groups |->
                  IF groupCompetition[g] = Some(id) THEN Some(newId)
                  ELSE groupCompetition[g]]
             /\ call' = [call EXCEPT ![p] = Return(c, [id |-> newId])]
     /\ UNCHANGED <<store, started, pure, groups, invitations, nextPredictionId,
                    nextMatchId, teams, memberRows, nextMemberId, counters,
                    nextCompetitionId, hist>>

\* CompetitionService.deleteCompetition(id): prisma.competition.delete, P2025
\* when the competition has no record; ON DELETE CASCADE deletes its teams,
\* its matches and those of its teams, and its groups, and with them every
\* row that refers to one of those.
deleteCompetition(p, id) ==
  LET c == [IdleCall EXCEPT !.args =
              Some([op |-> "deleteCompetition", competitionId |-> id])]
      goneTeams == {t \in TeamIds : teamCompetition[t] = Some(id)}
      goneMatches == MatchesOfTeams(goneTeams)
                       \cup {m \in MatchIds : /\ matchRefs[m] # Null
                                               /\ Val(matchRefs[m]).competitionId = id}
      goneGroups == {g \in Groups : groupCompetition[g] = Some(id)}
  IN /\ call[p].pc = "idle"
     /\ IF id \notin competitions
        THEN /\ call' = [call EXCEPT ![p] =
                           [c EXCEPT !.pc = "done", !.result = "RECORD_NOT_FOUND"]]
             /\ UNCHANGED <<store, started, competitions, teams, groups, memberRows,
                            invitations, teamCompetition, matchRefs, groupCompetition>>
        ELSE /\ competitions' = competitions \ {id}
             /\ teams' = teams \ goneTeams
             /\ teamCompetition' = [t \in TeamIds |->
                              IF t \in goneTeams THEN Null ELSE teamCompetition[t]]
             /\ matches' = [m \in MatchIds |->
                              IF m \in goneMatches THEN Null ELSE matches[m]]
             /\ matchRefs' = [m \in MatchIds |->
                              IF m \in goneMatches THEN Null ELSE matchRefs[m]]
             /\ started' = [m \in MatchIds |->
                              IF m \in goneMatches THEN FALSE ELSE started[m]]
             /\ predictions' = PredictionsWithout(goneMatches, goneGroups)
             /\ GroupsDeleted(goneGroups)
             /\ call' = [call EXCEPT ![p] =
                           Return(c, [message |-> "Competition deleted successfully"])]
     /\ UNCHANGED <<pure, nextPredictionId, nextMatchId, nextMemberId, counters,
                    nextCompetitionId, hist>>

\* The ingest of the competitions: prisma.competition.upsert stores the
\* competition under its id.
ingestCompetitions_upsert(id) ==
  /\ competitions' = competitions \cup {id}
  /\ nextCompetitionId' = IF id = nextCompetitionId THEN "c3" ELSE nextCompetitionId
  /\ UNCHANGED <<store, started, pure, call, groups, invitations, nextPredictionId,
                 nextMatchId, teams, memberRows, nextMemberId, counters,
                 teamCompetition, matchRefs, groupCompetition, hist>>

\* The items the external API returns to the ingest here: a match with the
\* foreign keys of MatchRefs, finished 1-0 in the past or scheduled in the
\* future.
IngestItems ==
  {MatchData(Some("finished"), Some(Some(1)), Some(Some(0)), Some("past")),
   MatchData(Some("scheduled"), Some(Null), Some(Null), Some("future"))}

\* scripts/ingest-matches.ts, one item of the loop: Promise.all issues the
\* three lookups together; none is answered yet.
ingest_item(p, id, item) ==
  /\ call[p].pc = "idle"
  /\ call' = [call EXCEPT ![p] =
       [IdleCall EXCEPT !.pc = "ingest_find", !.id = id, !.args =
          Some([op |-> "ingest", data |-> item,
                found |-> [competition |-> Null, home |-> Null, away |-> Null]])]]
  /\ UNCHANGED <<store, started, pure, other, hist>>

\* The request c once the lookup named which is answered with a row or with
\* none: the Promise.all waits while a lookup is pending; then the item is
\* skipped when one of the three results is null, and upserted otherwise.
Answered(c, which, row) ==
  LET found == [Val(c.args).found EXCEPT ![which] = Some(row)]
      d == [c EXCEPT !.args = Some([Val(@) EXCEPT !.found = found])]
  IN IF \E w \in DOMAIN found : found[w] = Null THEN d
     ELSE IF \A w \in DOMAIN found : Val(found[w]) THEN [d EXCEPT !.pc = "ingest_upsert"]
     ELSE [d EXCEPT !.pc = "done", !.result = "ok"]

\* prisma.competition.findUnique of the Promise.all is answered.
ingest_findCompetition(p) ==
  LET c == call[p]
  IN /\ c.pc = "ingest_find"
     /\ Val(c.args).found.competition = Null
     /\ call' = [call EXCEPT ![p] =
          Answered(c, "competition", MatchRefs(c.id).competitionId \in competitions)]
     /\ UNCHANGED <<store, started, pure, other, hist>>

\* prisma.team.findUnique of the home team is answered.
ingest_findHome(p) ==
  LET c == call[p]
  IN /\ c.pc = "ingest_find"
     /\ Val(c.args).found.home = Null
     /\ call' = [call EXCEPT ![p] =
          Answered(c, "home", MatchRefs(c.id).homeTeamId \in teams)]
     /\ UNCHANGED <<store, started, pure, other, hist>>

\* prisma.team.findUnique of the away team is answered.
ingest_findAway(p) ==
  LET c == call[p]
  IN /\ c.pc = "ingest_find"
     /\ Val(c.args).found.away = Null
     /\ call' = [call EXCEPT ![p] =
          Answered(c, "away", MatchRefs(c.id).awayTeamId \in teams)]
     /\ UNCHANGED <<store, started, pure, other, hist>>

\* scripts/ingest-matches.ts: prisma.match.upsert by the id of the item, which
\* creates the row under that id or overwrites every column of it, the
\* foreign keys too; the competition or a team deleted since the check makes
\* a foreign key fail (P2003).
ingest_upsert(p) ==
  LET c == call[p]
      item == Val(c.args).data
  IN /\ c.pc = "ingest_upsert"
     /\ IF ~RefsExist(MatchRefs(c.id))
        THEN /\ Throw(p, "FOREIGN_KEY")
             /\ UNCHANGED <<matches, started, nextMatchId, matchRefs>>
        ELSE /\ matches' = [matches EXCEPT ![c.id] =
                              Some([status |-> Val(item.status),
                                    homeScore |-> Val(item.homeScore),
                                    awayScore |-> Val(item.awayScore)])]
             /\ matchRefs' = [matchRefs EXCEPT ![c.id] = Some(MatchRefs(c.id))]
             /\ started' = [started EXCEPT ![c.id] = (Val(item.scheduledDate) = "past")]
             /\ nextMatchId' = IF c.id = nextMatchId THEN "m4" ELSE nextMatchId
             /\ call' = [call EXCEPT ![p] = [c EXCEPT !.pc = "done", !.result = "ok"]]
     /\ UNCHANGED <<predictions, members, rankings, rules, pure, groups, invitations,
                    nextPredictionId, teams, memberRows, nextMemberId, competitions,
                    counters, teamCompetition, groupCompetition, nextCompetitionId,
                    hist>>

\* The ingest of the teams (scripts/ingest-matches.ts, second main), one item
\* of the loop, a team of competition c1: prisma.competition.findUnique; the
\* team is skipped when its competition has no record.
ingestTeams_find(p, team) ==
  /\ call[p].pc = "idle"
  /\ LET c == [IdleCall EXCEPT !.args = Some([op |-> "ingestTeams", team |-> team])]
     IN call' = [call EXCEPT ![p] =
          IF "c1" \in competitions
          THEN [c EXCEPT !.pc = "ingestTeams_upsert"]
          ELSE [c EXCEPT !.pc = "done", !.result = "ok"]]
  /\ UNCHANGED <<store, started, pure, other, hist>>

\* The ingest of the teams: prisma.team.upsert stores the team under its id,
\* with its competition; the competition deleted since the check makes the
\* foreign key fail (P2003).
ingestTeams_upsert(p) ==
  LET team == Val(call[p].args).team
  IN /\ call[p].pc = "ingestTeams_upsert"
     /\ IF "c1" \notin competitions
        THEN /\ Throw(p, "FOREIGN_KEY")
             /\ UNCHANGED <<teams, teamCompetition>>
        ELSE /\ teams' = teams \cup {team}
             /\ teamCompetition' = [teamCompetition EXCEPT ![team] = Some("c1")]
             /\ call' = [call EXCEPT ![p] = [@ EXCEPT !.pc = "done", !.result = "ok"]]
     /\ UNCHANGED <<store, started, pure, groups, invitations, nextPredictionId,
                    nextMatchId, memberRows, nextMemberId, competitions, counters,
                    matchRefs, groupCompetition, nextCompetitionId, hist>>

\* One step of request p inside or into updateMatch, of either MatchService.
StepUpdate(p, ids, bodies) ==
  \/ \E id \in ids, data \in bodies : um_find(p, id, data)
  \/ um_update(p)
  \/ \E id \in ids, data \in bodies : um2_update(p, id, data)
  \/ respond(p)

\* One step of request p that creates or deletes matches, through
\* MatchService, through TeamService.deleteTeam,
\* CompetitionService.deleteCompetition or in the ingests, or that is inside
\* or into updateScore of the second MatchService.
StepCatalog(p, ids, teamIds, items, results) ==
  \/ \E scheduledDate \in {"past", "future"} : createMatch(p, scheduledDate)
  \/ \E id \in ids : deleteMatch(p, id)
  \/ \E team \in teamIds : deleteTeam(p, team)
  \/ \E id \in CompetitionIds : deleteCompetition(p, id)
  \/ \E id \in ids, item \in items : ingest_item(p, id, item)
  \/ ingest_findCompetition(p)
  \/ ingest_findHome(p)
  \/ ingest_findAway(p)
  \/ ingest_upsert(p)
  \/ \E team \in teamIds : ingestTeams_find(p, team)
  \/ ingestTeams_upsert(p)
  \/ \E id \in ids : us2_find(p, id)
  \/ \E res \in results : us2_update(p, res[1], res[2])
  \/ StepCalc(p)
  \/ respond(p)

\* The requests name m1 and the id without a record.
\* Request 1 carries the score requests, updateScore being called with or
\* without a status, and request 2 the updates of the match; the two
\* interleave at their storage calls.  The predictions were stored while the
\* matches were scheduled (u1's on m1 and u2's on m2, in g1).
NextStatus ==
  \/ StepScore(1, {"m1", "mX"}, ResultInputs, {Null, Some("live"), Some("finished")})
  \/ StepUpdate(2, {"m1", "mX"}, MatchBodies)

InitStatus ==
  /\ matches = [m \in MatchIds |->
       IF m \in Matches
       THEN Some([status |-> "scheduled", homeScore |-> Null, awayScore |-> Null])
       ELSE Null]
  /\ predictions = [k \in PredKeys |->
       IF k \in ConcKeys("u2")
       THEN Some([id |-> IF k[2] = "m1" THEN 1 ELSE 2,
                  home |-> 0, away |-> 0, pointsEarned |-> Null])
       ELSE Null]
  /\ members = InitMembers
  /\ rankings = [g \in Groups |-> [u \in Users |-> Null]]
  /\ rules = InitRules
  /\ started = [m \in MatchIds |-> FALSE]
  /\ call = [p \in Procs |-> IdleCall]
  /\ scoredWith = [m \in MatchIds |-> <<>>]
  /\ rankBefore = [g \in Groups |-> [u \in Users |-> Null]]
  /\ cpArgs = NoArgs
  /\ cpResult = Null
  /\ nextPredictionId = 3
  /\ InitCatalog

SpecStatus == InitStatus /\ [][NextStatus]_vars

\* The requests name m1 and the new match, t2 (a team of m1) and the result
\* 1-0 while matches are created and deleted.
\* Request 1 carries the score requests, stores t2 again or renumbers it;
\* request 2 creates and deletes matches, deletes the team or the
\* competition, and runs the ingests of matches and teams and the second
\* updateScore; the ingest of the competitions runs beside them.
NextCatalog ==
  \/ StepScore(1, {"m1", "mX"}, {<<Some(1), Some(0)>>}, {Null})
  \/ StepCatalog(2, {"m1", "mX"}, {"t2"},
                 {item \in IngestItems : item.status = Some("finished")},
                 {<<Some(1), Some(0)>>})
  \/ createTeam(1, [id |-> Some("t2"), competitionId |-> Some("c1")])
  \/ updateTeam(1, "t2", [id |-> Some("tX"), competitionId |-> Null])
  \/ \E id \in Competitions : ingestCompetitions_upsert(id)

SpecCatalog == InitStatus /\ [][NextCatalog]_vars

\* --------------------------------------------- calculatePoints on its own

\* The scores calculatePoints is applied to.
Scores == 0..MaxScore

\* The rules a group can store: ruleDescription is an optional string (here
\* absent, one of the three keywords, or 'Exact Score' as the README writes
\* the rule), points any integer (createScoringRuleSchema: z.number().int()).
RuleInputs ==
  [ruleDescription : {Null, Some(ExactScoreKeyword), Some(CorrectWinnerKeyword),
                      Some(CorrectDrawKeyword),
                      Some(<<"E","x","a","c","t"," ","S","c","o","r","e">>)},
   points : {-1, 0, 2}]

InitPoints ==
  /\ matches = [m \in MatchIds |->
       IF m \in Matches
       THEN Some([status |-> "scheduled", homeScore |-> Null, awayScore |-> Null])
       ELSE Null]
  /\ predictions = [k \in PredKeys |-> Null]
  /\ members = InitMembers
  /\ rankings = [g \in Groups |-> [u \in Users |-> Null]]
  /\ rules = InitRules
  /\ started = [m \in MatchIds |-> FALSE]
  /\ call = [p \in Procs |-> IdleCall]
  /\ scoredWith = [m \in MatchIds |-> <<>>]
  /\ rankBefore = [g \in Groups |-> [u \in Users |-> Null]]
  /\ cpArgs \in [predictedHome : Scores, predictedAway : Scores,
                  actualHome : Scores, actualAway : Scores,
                  rules : UNION {[1..n -> RuleInputs] : n \in 0..MaxRules}]
  /\ cpResult = Null
  /\ nextPredictionId = 1
  /\ InitCatalog

\* calculatePoints(predictedHome, predictedAway, actualHome, actualAway, rules)
\* is called and returns.
calculatePoints_call ==
  /\ cpResult = Null
  /\ cpResult' = Some(calculatePoints(cpArgs.predictedHome, cpArgs.predictedAway,
                                      cpArgs.actualHome, cpArgs.actualAway,
                                      cpArgs.rules))
  /\ UNCHANGED <<store, started, call, hist, cpArgs, other>>

SpecPoints == InitPoints /\ [][calculatePoints_call]_vars

\* ------------------------------------------------------------ membership

\* The creator of the groups here.
Owner(g) == "u1"

\* The row prisma.groupMember.create stores: the next id and the role;
\* totalPoints, 0 by the column default, is kept in members.
MemberRow(role) == [id |-> nextMemberId, role |-> role]

\* group_members_group_id_user_id_key: a second row of the pair is refused
\* (Prisma error P2002).
MemberExists(groupId, userId) == memberRows[groupId][userId] # Null

\* A request that may create a member row is started only while an id is left
\* for it and for the requests that may still create one.
MayJoin ==
  LET joining == {p \in Procs :
                    call[p].pc \in {"jg_findMember", "jg_create", "acc_findMember",
                                    "acc_tx", "cg_create", "cg_member"}}
  IN nextMemberId + Cardinality(joining) <= MaxMemberIds

\* GroupService.checkPermission(groupId, userId, allowedRoles):
\* prisma.groupMember.findFirst and the test of the role.
checkPermission(groupId, userId, allowedRoles) ==
  /\ memberRows[groupId][userId] # Null
  /\ Val(memberRows[groupId][userId]).role \in allowedRoles

\* GroupService.joinGroup(groupId, userId, inviteCode), the group being public
\* or the code the group's: prisma.group.findUnique and the 404.
jg_findGroup(p, groupId, userId) ==
  /\ call[p].pc = "idle"
  /\ MayJoin
  /\ LET c == [IdleCall EXCEPT !.args =
                 Some([op |-> "joinGroup", groupId |-> groupId, userId |-> userId])]
     IN call' = [call EXCEPT ![p] =
          IF groupId \notin groups
          THEN [c EXCEPT !.pc = "done", !.result = "NOT_FOUND"]
          ELSE [c EXCEPT !.pc = "jg_findMember"]]
  /\ UNCHANGED <<store, started, pure, other, hist>>

\* joinGroup: prisma.groupMember.findFirst and the AppError 409.
jg_findMember(p) ==
  LET a == Val(call[p].args)
  IN /\ call[p].pc = "jg_findMember"
     /\ IF memberRows[a.groupId][a.userId] # Null
        THEN Throw(p, "ALREADY_EXISTS")
        ELSE call' = [call EXCEPT ![p].pc = "jg_create"]
     /\ UNCHANGED <<store, started, pure, other, hist>>

\* joinGroup: prisma.groupMember.create with role 'member', refused by the
\* unique index (P2002) and, the group deleted since the check, by
\* group_members_group_id_fkey (P2003).
jg_create(p) ==
  LET a == Val(call[p].args)
  IN /\ call[p].pc = "jg_create"
     /\ IF MemberExists(a.groupId, a.userId)
        THEN /\ Throw(p, "CONFLICT")
             /\ UNCHANGED <<members, memberRows, nextMemberId>>
        ELSE IF a.groupId \notin groups
        THEN /\ Throw(p, "FOREIGN_KEY")
             /\ UNCHANGED <<members, memberRows, nextMemberId>>
        ELSE /\ members' = [members EXCEPT ![a.groupId][a.userId] = Some(0)]
             /\ memberRows' = [memberRows EXCEPT ![a.groupId][a.userId] =
                                 Some(MemberRow("member"))]
             /\ nextMemberId' = nextMemberId + 1
             /\ call' = [call EXCEPT ![p] = Return(call[p], MemberRow("member"))]
     /\ UNCHANGED <<matches, predictions, rankings, rules, started, pure, groups,
                    invitations, nextPredictionId, nextMatchId, teams, competitions,
                    counters, hist, catalog>>

\* GroupService.leaveGroup(groupId, userId): prisma.groupMember.findFirst, the
\* 404 and the 400 of the owner.
lg_find(p, groupId, userId) ==
  /\ call[p].pc = "idle"
  /\ LET c == [IdleCall EXCEPT !.args =
                 Some([op |-> "leaveGroup", groupId |-> groupId, userId |-> userId,
                       memberId |-> 0])]
         row == memberRows[groupId][userId]
     IN call' = [call EXCEPT ![p] =
          IF row = Null
          THEN [c EXCEPT !.pc = "done", !.result = "NOT_FOUND"]
          ELSE IF Val(row).role = "owner"
          THEN [c EXCEPT !.pc = "done", !.result = "BAD_REQUEST"]
          ELSE [c EXCEPT !.pc = "lg_delete",
                         !.args = Some([Val(@) EXCEPT !.memberId = Val(row).id])]]
  /\ UNCHANGED <<store, started, pure, other, hist>>

\* prisma.groupMember.delete({where: {id}}) finds no row (P2025).
MemberGone(groupId, userId, memberId) ==
  \/ memberRows[groupId][userId] = Null
  \/ Val(memberRows[groupId][userId]).id # memberId

\* leaveGroup: prisma.groupMember.delete of the row found.
lg_delete(p) ==
  LET a == Val(call[p].args)
  IN /\ call[p].pc = "lg_delete"
     /\ IF MemberGone(a.groupId, a.userId, a.memberId)
        THEN /\ Throw(p, "RECORD_NOT_FOUND")
             /\ UNCHANGED <<members, memberRows>>
        ELSE /\ members' = [members EXCEPT ![a.groupId][a.userId] = Null]
             /\ memberRows' = [memberRows EXCEPT ![a.groupId][a.userId] = Null]
             /\ call' = [call EXCEPT ![p] =
                           Return(call[p], [message |-> "Left group successfully"])]
     /\ UNCHANGED <<matches, predictions, rankings, rules, started, pure, groups,
                    invitations, nextPredictionId, nextMatchId, teams, nextMemberId,
                    competitions, counters, hist, catalog>>

\* GroupService.removeMember(groupId, userId, targetUserId): checkPermission
\* and the 403.
rm_check(p, groupId, userId, targetUserId) ==
  /\ call[p].pc = "idle"
  /\ LET c == [IdleCall EXCEPT !.args =
                 Some([op |-> "removeMember", groupId |-> groupId,
                       userId |-> targetUserId, memberId |-> 0])]
     IN call' = [call EXCEPT ![p] =
          IF ~checkPermission(groupId, userId, {"owner", "admin"})
          THEN [c EXCEPT !.pc = "done", !.result = "FORBIDDEN"]
          ELSE [c EXCEPT !.pc = "rm_find"]]
  /\ UNCHANGED <<store, started, pure, other, hist>>

\* removeMember: prisma.groupMember.findFirst of the target, the 404 and the
\* 400 of the owner.
rm_find(p) ==
  LET a == Val(call[p].args)
      row == memberRows[a.groupId][a.userId]
  IN /\ call[p].pc = "rm_find"
     /\ IF row = Null
        THEN Throw(p, "NOT_FOUND")
        ELSE IF Val(row).role = "owner"
        THEN Throw(p, "BAD_REQUEST")
        ELSE call' = [call EXCEPT ![p].pc = "rm_delete",
                        ![p].args = Some([a EXCEPT !.memberId = Val(row).id])]
     /\ UNCHANGED <<store, started, pure, other, hist>>

\* removeMember: prisma.groupMember.delete of the row found.
rm_delete(p) ==
  LET a == Val(call[p].args)
  IN /\ call[p].pc = "rm_delete"
     /\ IF MemberGone(a.groupId, a.userId, a.memberId)
        THEN /\ Throw(p, "RECORD_NOT_FOUND")
             /\ UNCHANGED <<members, memberRows>>
        ELSE /\ members' = [members EXCEPT ![a.groupId][a.userId] = Null]
             /\ memberRows' = [memberRows EXCEPT ![a.groupId][a.userId] = Null]
             /\ call' = [call EXCEPT ![p] =
                           Return(call[p], [message |-> "Member removed successfully"])]
     /\ UNCHANGED <<matches, predictions, rankings, rules, started, pure, groups,
                    invitations, nextPredictionId, nextMatchId, teams, nextMemberId,
                    competitions, counters, hist, catalog>>

\* One step of request p inside or into joinGroup.
StepJoin(p, groupId, users) ==
  \/ \E userId \in users : jg_findGroup(p, groupId, userId)
  \/ jg_findMember(p)
  \/ jg_create(p)
  \/ respond(p)

\* One step of request p inside or into leaveGroup.
StepLeave(p, groupId, users) ==
  \/ \E userId \in users : lg_find(p, groupId, userId)
  \/ lg_delete(p)
  \/ respond(p)

\* One step of request p inside or into removeMember.
StepRemove(p, groupId, users, targets) ==
  \/ \E userId \in users, targetUserId \in targets :
        rm_check(p, groupId, userId, targetUserId)
  \/ rm_find(p)
  \/ rm_delete(p)
  \/ respond(p)

\* The membership requests name g1: u2 and the owner join and leave, the
\* owner and u3 remove u2 or the owner.
\* Request 1 carries the score requests and the removals, request 2 the users
\* who join and leave; the two interleave at their storage calls.  The
\* predictions were stored before.
NextMember ==
  \/ Step(1)
  \/ StepRemove(1, "g1", {"u1", "u3"}, {"u1", "u2"})
  \/ StepJoin(2, "g1", {"u1", "u2"})
  \/ StepLeave(2, "g1", {"u1", "u2"})

SpecMember == InitStatus /\ [][NextMember]_vars

\* ------------------------------------------------------------- createGroup

\* createGroup(userId, data): prisma.competition.findUnique and the 404.  The
\* request is started only while a group id is left for it and for the
\* requests that may still create a group.
cg_find(p, userId, competitionId) ==
  /\ call[p].pc = "idle"
  /\ MayJoin
  /\ nextGroupId + Cardinality({q \in Procs : call[q].pc = "cg_create"})
       <= Len(GroupIds)
  /\ LET c == [IdleCall EXCEPT !.args =
                 Some([op |-> "createGroup", userId |-> userId,
                       competitionId |-> competitionId, group |-> Null])]
     IN call' = [call EXCEPT ![p] =
          IF competitionId \notin competitions
          THEN [c EXCEPT !.pc = "done", !.result = "NOT_FOUND"]
          ELSE [c EXCEPT !.pc = "cg_create"]]
  /\ UNCHANGED <<store, started, pure, other, hist>>

\* createGroup: prisma.group.create, which gives the group the next id;
\* groups_competition_id_fkey refuses it when the competition was deleted
\* since the check (P2003).
cg_create(p) ==
  LET competitionId == Val(call[p].args).competitionId
      group == GroupIds[nextGroupId]
  IN /\ call[p].pc = "cg_create"
     /\ IF competitionId \notin competitions
        THEN /\ Throw(p, "FOREIGN_KEY")
             /\ UNCHANGED <<groups, nextGroupId, groupCompetition>>
        ELSE /\ groups' = groups \cup {group}
             /\ groupCompetition' = [groupCompetition EXCEPT ![group] = Some(competitionId)]
             /\ nextGroupId' = nextGroupId + 1
             /\ call' = [call EXCEPT ![p].pc = "cg_member",
                            ![p].args = Some([Val(@) EXCEPT !.group = Some(group)])]
     /\ UNCHANGED <<store, started, pure, invitations, nextPredictionId, nextMatchId,
                    teams, memberRows, nextMemberId, competitions, nextRuleId,
                    nextInvitationId, teamCompetition, matchRefs, nextCompetitionId,
                    hist>>

\* createGroup: prisma.groupMember.create with role 'owner', refused by
\* group_members_group_id_fkey when the group was deleted since (P2003).
cg_member(p) ==
  LET a == Val(call[p].args)
  IN /\ call[p].pc = "cg_member"
     /\ IF MemberExists(Val(a.group), a.userId)
        THEN /\ Throw(p, "CONFLICT")
             /\ UNCHANGED <<members, memberRows, nextMemberId>>
        ELSE IF Val(a.group) \notin groups
        THEN /\ Throw(p, "FOREIGN_KEY")
             /\ UNCHANGED <<members, memberRows, nextMemberId>>
        ELSE /\ members' = [members EXCEPT ![Val(a.group)][a.userId] = Some(0)]
             /\ memberRows' = [memberRows EXCEPT ![Val(a.group)][a.userId] =
                                 Some(MemberRow("owner"))]
             /\ nextMemberId' = nextMemberId + 1
             /\ call' = [call EXCEPT ![p].pc = "cg_rules"]
     /\ UNCHANGED <<matches, predictions, rankings, rules, started, pure, groups,
                    invitations, nextPredictionId, nextMatchId, teams, competitions,
                    counters, hist, catalog>>

\* createGroup: prisma.groupScoringRule.createMany of the three default rules,
\* refused by group_scoring_rules_group_id_fkey when the group was deleted
\* since (P2003).
cg_rules(p) ==
  LET a == Val(call[p].args)
  IN /\ call[p].pc = "cg_rules"
     /\ IF Val(a.group) \notin groups
        THEN /\ Throw(p, "FOREIGN_KEY")
             /\ UNCHANGED <<rules, nextRuleId>>
        ELSE /\ rules' = [rules EXCEPT ![Val(a.group)] = @ \o SeedRows(nextRuleId)]
             /\ nextRuleId' = nextRuleId + Len(SeedRules)
             /\ call' = [call EXCEPT ![p] = Return(call[p], Val(a.group))]
     /\ UNCHANGED <<matches, predictions, members, rankings, started, pure, groups,
                    invitations, nextPredictionId, nextMatchId, teams, memberRows,
                    nextMemberId, competitions, nextGroupId, nextInvitationId, hist,
                    catalog>>

\* GroupService.deleteGroup(groupId, userId): checkPermission(['owner']) and
\* the 403.
dg_check(p, groupId, userId) ==
  /\ call[p].pc = "idle"
  /\ LET c == [IdleCall EXCEPT !.args =
                 Some([op |-> "deleteGroup", groupId |-> groupId, userId |-> userId])]
     IN call' = [call EXCEPT ![p] =
          IF ~checkPermission(groupId, userId, {"owner"})
          THEN [c EXCEPT !.pc = "done", !.result = "FORBIDDEN"]
          ELSE [c EXCEPT !.pc = "dg_delete"]]
  /\ UNCHANGED <<store, started, pure, other, hist>>

\* deleteGroup: prisma.group.delete, P2025 when the group is gone by now; the
\* rows that refer to the group go with it.
dg_delete(p) ==
  LET a == Val(call[p].args)
  IN /\ call[p].pc = "dg_delete"
     /\ IF a.groupId \notin groups
        THEN /\ Throw(p, "RECORD_NOT_FOUND")
             /\ UNCHANGED <<predictions, members, rankings, rules, groups, memberRows,
                            invitations, groupCompetition>>
        ELSE /\ GroupsDeleted({a.groupId})
             /\ predictions' = PredictionsWithout({}, {a.groupId})
             /\ call' = [call EXCEPT ![p] =
                           Return(call[p], [message |-> "Group deleted successfully"])]
     /\ UNCHANGED <<matches, started, pure, nextPredictionId, nextMatchId, teams,
                    nextMemberId, competitions, counters, teamCompetition, matchRefs,
                    nextCompetitionId, hist>>

\* The positions <<group, index>> of the scoring rule with the id.
RuleWithId(ruleId) ==
  {at \in UNION {{<<g, i>> : i \in 1..Len(rules[g])} : g \in Groups} :
     rules[at[1]][at[2]].id = ruleId}

\* createScoringRule, updateScoringRule and deleteScoringRule(groupId, ruleId,
\* userId, data): checkPermission(['owner', 'admin']) and the 403.
sr_check(p, op, groupId, ruleId, userId, data) ==
  /\ call[p].pc = "idle"
  /\ op = "createScoringRule"
       => nextRuleId + Cardinality({q \in Procs : call[q].pc = "csr_create"})
            <= MaxRuleIds
  /\ LET c == [IdleCall EXCEPT !.args =
                 Some([op |-> op, groupId |-> groupId, ruleId |-> ruleId,
                       userId |-> userId, data |-> data])]
     IN call' = [call EXCEPT ![p] =
          IF ~checkPermission(groupId, userId, {"owner", "admin"})
          THEN [c EXCEPT !.pc = "done", !.result = "FORBIDDEN"]
          ELSE [c EXCEPT !.pc = IF op = "createScoringRule"
                               THEN "csr_create" ELSE "sr_find"]]
  /\ UNCHANGED <<store, started, pure, other, hist>>

\* createScoringRule: prisma.groupScoringRule.create, refused by
\* group_scoring_rules_group_id_fkey when the group was deleted since the
\* check (P2003).
csr_create(p) ==
  LET a == Val(call[p].args)
      row == [id |-> nextRuleId,
              ruleDescription |-> IF a.data.ruleDescription = Null THEN Null
                                  ELSE Val(a.data.ruleDescription),
              points |-> Val(a.data.points)]
  IN /\ call[p].pc = "csr_create"
     /\ IF a.groupId \notin groups
        THEN /\ Throw(p, "FOREIGN_KEY")
             /\ UNCHANGED <<rules, nextRuleId>>
        ELSE /\ rules' = [rules EXCEPT ![a.groupId] = Append(@, row)]
             /\ nextRuleId' = nextRuleId + 1
             /\ call' = [call EXCEPT ![p] = Return(call[p], row)]
     /\ UNCHANGED <<matches, predictions, members, rankings, started, pure, groups,
                    invitations, nextPredictionId, nextMatchId, teams, memberRows,
                    nextMemberId, competitions, nextGroupId, nextInvitationId, hist,
                    catalog>>

\* updateScoringRule and deleteScoringRule: prisma.groupScoringRule.findFirst
\* of the rule with the id in the group, and the 404.
sr_find(p) ==
  LET a == Val(call[p].args)
  IN /\ call[p].pc = "sr_find"
     /\ IF \A at \in RuleWithId(a.ruleId) : at[1] # a.groupId
        THEN Throw(p, "NOT_FOUND")
        ELSE call' = [call EXCEPT ![p].pc = IF a.op = "updateScoringRule"
                                           THEN "usr_update" ELSE "dsr_delete"]
     /\ UNCHANGED <<store, started, pure, other, hist>>

\* updateScoringRule: prisma.groupScoringRule.update by the id of the fields
\* data holds, P2025 when the rule is gone by now.
usr_update(p) ==
  LET a == Val(call[p].args)
      found == RuleWithId(a.ruleId)
  IN /\ call[p].pc = "usr_update"
     /\ IF found = {}
        THEN Throw(p, "RECORD_NOT_FOUND") /\ UNCHANGED rules
        ELSE LET at == CHOOSE at \in found : TRUE
                 old == rules[at[1]][at[2]]
                 row == [id |-> old.id,
                         ruleDescription |->
                           IF a.data.ruleDescription = Null THEN old.ruleDescription
                           ELSE Val(a.data.ruleDescription),
                         points |-> IF a.data.points = Null THEN old.points
                                    ELSE Val(a.data.points)]
             IN /\ rules' = [rules EXCEPT ![at[1]][at[2]] = row]
                /\ call' = [call EXCEPT ![p] = Return(call[p], row)]
     /\ UNCHANGED <<matches, predictions, members, rankings, started, pure, other, hist>>

\* deleteScoringRule: prisma.groupScoringRule.delete by the id, P2025 when the
\* rule is gone by now.
dsr_delete(p) ==
  LET a == Val(call[p].args)
      found == RuleWithId(a.ruleId)
  IN /\ call[p].pc = "dsr_delete"
     /\ IF found = {}
        THEN Throw(p, "RECORD_NOT_FOUND") /\ UNCHANGED rules
        ELSE LET at == CHOOSE at \in found : TRUE
                 list == rules[at[1]]
             IN /\ rules' = [rules EXCEPT ![at[1]] =
                     SubSeq(list, 1, at[2] - 1) \o SubSeq(list, at[2] + 1, Len(list))]
                /\ call' = [call EXCEPT ![p] =
                     Return(call[p], [message |-> "Scoring rule deleted successfully"])]
     /\ UNCHANGED <<matches, predictions, members, rankings, started, pure, other, hist>>

\* The storage refuses the member row or the rules: the error leaves
\* createGroup, which has no transaction and no handler around its writes.
cg_writeFails(p) ==
  /\ call[p].pc \in {"cg_member", "cg_rules"}
  /\ Throw(p, "STORAGE_ERROR")
  /\ UNCHANGED <<store, started, pure, other, hist>>

\* One step of request p inside or into createGroup or deleteGroup.
StepGroup(p, competitionIds, groupIds, users) ==
  \/ \E competitionId \in competitionIds, g \in Groups :
        cg_find(p, Owner(g), competitionId)
  \/ cg_create(p)
  \/ cg_member(p)
  \/ cg_rules(p)
  \/ cg_writeFails(p)
  \/ \E groupId \in groupIds, userId \in users : dg_check(p, groupId, userId)
  \/ dg_delete(p)
  \/ respond(p)

\* One step of request p inside or into createScoringRule, updateScoringRule
\* or deleteScoringRule, with a body of bodies: each field is absent (Null)
\* or present with the value to store.
StepRules(p, groupIds, users, ruleIds, bodies) ==
  \/ \E op \in {"createScoringRule", "updateScoringRule", "deleteScoringRule"},
        groupId \in groupIds, ruleId \in ruleIds, userId \in users,
        data \in bodies :
        sr_check(p, op, groupId, ruleId, userId, data)
  \/ csr_create(p)
  \/ sr_find(p)
  \/ usr_update(p)
  \/ dsr_delete(p)
  \/ respond(p)

\* Two requests create groups concurrently; the owner or u2 deletes the first
\* group, the owner writes its scoring rules (creates an 'Exact score' rule
\* worth 0, updates the first rule to it, deletes the first rule), a second
\* competition is created, and competition c1 is renumbered or deleted.
NextGroup ==
  \/ \E p \in Procs : StepGroup(p, CompetitionIds, {"g1"}, {"u1", "u2"})
  \/ StepRules(2, {"g1"}, {"u1"}, {1},
               {[ruleDescription |-> Some(Some(ExactScoreKeyword)), points |-> Some(0)]})
  \/ createCompetition(2, [id |-> Null])
  \/ updateCompetition(2, "c1", [id |-> Some("cX")])
  \/ \E id \in Competitions : deleteCompetition(2, id)

\* No group exists yet.
InitGroup ==
  /\ matches = [m \in MatchIds |->
       IF m \in Matches
       THEN Some([status |-> "scheduled", homeScore |-> Null, awayScore |-> Null])
       ELSE Null]
  /\ predictions = [k \in PredKeys |-> Null]
  /\ members = [g \in Groups |-> [u \in Users |-> Null]]
  /\ rankings = [g \in Groups |-> [u \in Users |-> Null]]
  /\ rules = [g \in Groups |-> <<>>]
  /\ started = [m \in MatchIds |-> FALSE]
  /\ call = [p \in Procs |-> IdleCall]
  /\ scoredWith = [m \in MatchIds |-> <<>>]
  /\ rankBefore = [g \in Groups |-> [u \in Users |-> Null]]
  /\ cpArgs = NoArgs
  /\ cpResult = Null
  /\ groups = {}
  /\ invitations = [i \in InvitationIds |-> Null]
  /\ nextPredictionId = 1
  /\ nextMatchId = "mX"
  /\ teams = Teams
  /\ memberRows = [g \in Groups |-> [u \in Users |-> Null]]
  /\ nextMemberId = 1
  /\ competitions = Competitions
  /\ nextGroupId = 1
  /\ nextRuleId = 1
  /\ nextInvitationId = 1
  /\ teamCompetition = [t \in TeamIds |-> IF t \in Teams THEN Some("c1") ELSE Null]
  /\ matchRefs = [m \in MatchIds |-> IF m \in Matches THEN Some(MatchRefs(m)) ELSE Null]
  /\ groupCompetition = [g \in Groups |-> Null]
  /\ nextCompetitionId = "cX"

SpecGroup == InitGroup /\ [][NextGroup]_vars

\* -------------------------------------------------------------- invitations

\* InvitationService.createInvitation(inviterId, data), for the invitee and
\* the group above: prisma.group.findUnique and the 404.  The request is started
\* only while an invitation id is left for it and for the requests that may
\* still create one.
ci_findGroup(p, inviterId) ==
  /\ call[p].pc = "idle"
  /\ nextInvitationId
       + Cardinality({q \in Procs : call[q].pc \in
                        {"ci_findMember", "ci_findExisting", "ci_create"}})
       <= MaxInvitationIds
  /\ LET c == [IdleCall EXCEPT !.args =
                 Some([op |-> "createInvitation", userId |-> inviterId])]
     IN call' = [call EXCEPT ![p] =
          IF InviteGroup \notin groups
          THEN [c EXCEPT !.pc = "done", !.result = "NOT_FOUND"]
          ELSE [c EXCEPT !.pc = "ci_findMember"]]
  /\ UNCHANGED <<store, started, pure, other, hist>>

\* createInvitation: prisma.groupMember.findFirst of the inviter as owner or
\* admin, and the 403.
ci_findMember(p) ==
  /\ call[p].pc = "ci_findMember"
  /\ IF ~checkPermission(InviteGroup, Val(call[p].args).userId, {"owner", "admin"})
     THEN Throw(p, "FORBIDDEN")
     ELSE call' = [call EXCEPT ![p].pc = "ci_findExisting"]
  /\ UNCHANGED <<store, started, pure, other, hist>>

\* createInvitation: prisma.groupInvitation.findFirst of a pending invitation
\* of the invitee to the group, and the AppError 409.
ci_findExisting(p) ==
  /\ call[p].pc = "ci_findExisting"
  /\ IF \E i \in InvitationIds :
           invitations[i] # Null /\ Val(invitations[i]).status = "pending"
     THEN Throw(p, "ALREADY_EXISTS")
     ELSE call' = [call EXCEPT ![p].pc = "ci_create"]
  /\ UNCHANGED <<store, started, pure, other, hist>>

\* createInvitation: prisma.groupInvitation.create with status 'pending',
\* refused by group_invitations_group_id_fkey when the group was deleted since
\* the check (P2003).
ci_create(p) ==
  LET row == [status |-> "pending", inviterId |-> Val(call[p].args).userId]
  IN /\ call[p].pc = "ci_create"
     /\ IF InviteGroup \notin groups
        THEN /\ Throw(p, "FOREIGN_KEY")
             /\ UNCHANGED <<invitations, nextInvitationId>>
        ELSE /\ invitations' = [invitations EXCEPT ![nextInvitationId] = Some(row)]
             /\ nextInvitationId' = nextInvitationId + 1
             /\ call' = [call EXCEPT ![p] = Return(call[p], row)]
     /\ UNCHANGED <<store, started, pure, groups, nextPredictionId, nextMatchId, teams,
                    memberRows, nextMemberId, competitions, nextGroupId, nextRuleId,
                    hist, catalog>>

\* InvitationService.deleteInvitation(invitationId, userId):
\* prisma.groupInvitation.findUnique and the 404.
di_find(p, invitationId, userId) ==
  /\ call[p].pc = "idle"
  /\ LET c == [IdleCall EXCEPT !.args =
                 Some([op |-> "deleteInvitation", userId |-> userId,
                       invitationId |-> invitationId, inviterId |-> Null])]
     IN call' = [call EXCEPT ![p] =
          IF invitations[invitationId] = Null
          THEN [c EXCEPT !.pc = "done", !.result = "NOT_FOUND"]
          ELSE [c EXCEPT !.pc = "di_findMember",
                         !.args = Some([Val(@) EXCEPT !.inviterId =
                                   Some(Val(invitations[invitationId]).inviterId)])]]
  /\ UNCHANGED <<store, started, pure, other, hist>>

\* deleteInvitation: prisma.groupMember.findFirst of the user as owner or
\* admin, and the 403 of a user who is neither that nor the inviter.
di_findMember(p) ==
  LET a == Val(call[p].args)
  IN /\ call[p].pc = "di_findMember"
     /\ IF /\ Val(a.inviterId) # a.userId
           /\ ~checkPermission(InviteGroup, a.userId, {"owner", "admin"})
        THEN Throw(p, "FORBIDDEN")
        ELSE call' = [call EXCEPT ![p].pc = "di_delete"]
     /\ UNCHANGED <<store, started, pure, other, hist>>

\* deleteInvitation: prisma.groupInvitation.delete by the id, P2025 when the
\* invitation is gone by now.
di_delete(p) ==
  LET a == Val(call[p].args)
  IN /\ call[p].pc = "di_delete"
     /\ IF invitations[a.invitationId] = Null
        THEN /\ Throw(p, "RECORD_NOT_FOUND")
             /\ UNCHANGED invitations
        ELSE /\ invitations' = [invitations EXCEPT ![a.invitationId] = Null]
             /\ call' = [call EXCEPT ![p] =
                  Return(call[p], [message |-> "Invitation deleted successfully"])]
     /\ UNCHANGED <<store, started, pure, groups, nextPredictionId, nextMatchId, teams,
                    memberRows, nextMemberId, competitions, counters, hist,
                    catalog>>

\* acceptInvitation and rejectInvitation(token, userId):
\* prisma.groupInvitation.findUnique by the token, the 404, then the checks
\* of the invitee and of the status.
inv_find(p, op, token, userId) ==
  /\ call[p].pc = "idle"
  /\ op = "acceptInvitation" => MayJoin
  /\ LET c == [IdleCall EXCEPT !.args =
                 Some([op |-> op, userId |-> userId, invitationId |-> token])]
     IN call' = [call EXCEPT ![p] =
          IF invitations[token] = Null
          THEN [c EXCEPT !.pc = "done", !.result = "NOT_FOUND"]
          ELSE IF userId # Invitee
          THEN [c EXCEPT !.pc = "done", !.result = "FORBIDDEN"]
          ELSE IF Val(invitations[token]).status # "pending"
          THEN [c EXCEPT !.pc = "done", !.result = "BAD_REQUEST"]
          ELSE [c EXCEPT !.pc = IF op = "acceptInvitation"
                               THEN "acc_findMember" ELSE "rej_update"]]
  /\ UNCHANGED <<store, started, pure, other, hist>>

\* acceptInvitation: prisma.groupMember.findFirst and the AppError 409.
acc_findMember(p) ==
  /\ call[p].pc = "acc_findMember"
  /\ IF memberRows[InviteGroup][Val(call[p].args).userId] # Null
     THEN Throw(p, "ALREADY_EXISTS")
     ELSE call' = [call EXCEPT ![p].pc = "acc_tx"]
  /\ UNCHANGED <<store, started, pure, other, hist>>

\* acceptInvitation: the transaction of groupInvitation.update to 'accepted'
\* by the id and groupMember.create.  The update finds no row when the
\* invitation was deleted since the check (P2025), and the unique index of
\* group_members refuses a second row (P2002): the transaction is rolled back.
acc_tx(p) ==
  LET a == Val(call[p].args)
  IN /\ call[p].pc = "acc_tx"
     /\ IF invitations[a.invitationId] = Null
        THEN /\ Throw(p, "RECORD_NOT_FOUND")
             /\ UNCHANGED <<members, invitations, memberRows, nextMemberId>>
        ELSE IF MemberExists(InviteGroup, a.userId)
        THEN /\ Throw(p, "CONFLICT")
             /\ UNCHANGED <<members, invitations, memberRows, nextMemberId>>
        ELSE /\ invitations' = [invitations EXCEPT ![a.invitationId] =
                                  Some([Val(@) EXCEPT !.status = "accepted"])]
             /\ members' = [members EXCEPT ![InviteGroup][a.userId] = Some(0)]
             /\ memberRows' = [memberRows EXCEPT ![InviteGroup][a.userId] =
                                 Some(MemberRow("member"))]
             /\ nextMemberId' = nextMemberId + 1
             /\ call' = [call EXCEPT ![p] =
                  Return(call[p], [message |-> "Invitation accepted successfully"])]
     /\ UNCHANGED <<matches, predictions, rankings, rules, started, pure, hist,
                    groups, nextPredictionId, nextMatchId, teams, competitions,
                    counters, catalog>>

\* rejectInvitation: prisma.groupInvitation.update to 'rejected' by the id,
\* P2025 when the invitation was deleted since the check.
rej_update(p) ==
  LET a == Val(call[p].args)
  IN /\ call[p].pc = "rej_update"
     /\ IF invitations[a.invitationId] = Null
        THEN /\ Throw(p, "RECORD_NOT_FOUND")
             /\ UNCHANGED invitations
        ELSE /\ invitations' = [invitations EXCEPT ![a.invitationId] =
                                  Some([Val(@) EXCEPT !.status = "rejected"])]
             /\ call' = [call EXCEPT ![p] =
                  Return(call[p], [message |-> "Invitation rejected successfully"])]
     /\ UNCHANGED <<store, started, pure, groups, nextPredictionId, nextMatchId, teams,
                    memberRows, nextMemberId, competitions, counters, hist,
                    catalog>>

\* One step of request p inside or into an operation of InvitationService.
StepInvite(p, tokens, users) ==
  \/ \E op \in {"acceptInvitation", "rejectInvitation"}, token \in tokens,
        userId \in users :
        inv_find(p, op, token, userId)
  \/ acc_findMember(p)
  \/ acc_tx(p)
  \/ rej_update(p)
  \/ \E inviterId \in {Owner(InviteGroup), Invitee} : ci_findGroup(p, inviterId)
  \/ ci_findMember(p)
  \/ ci_findExisting(p)
  \/ ci_create(p)
  \/ \E invitationId \in tokens, userId \in {Owner(InviteGroup), Invitee} :
        di_find(p, invitationId, userId)
  \/ di_findMember(p)
  \/ di_delete(p)
  \/ respond(p)

\* The requests are served concurrently: u2 and u3 accept and reject, the
\* owner and u2 invite and delete invitations, and the invitee may also join
\* the group on their own.
NextInvite ==
  \E p \in Procs :
     \/ StepInvite(p, InvitationIds, {"u2", "u3"})
     \/ StepJoin(p, InviteGroup, {Invitee})

SpecInvite == Init /\ [][NextInvite]_vars

\* ------------------------------------------- predictions: write and read

\* The ids the requests name.
PredictionIds == 1..(MaxPredictionIds + 1)

\* prisma.prediction.findUnique({where: {id}}): the keys of the row with the id.
PredictionWithId(id) ==
  {k \in PredKeys : predictions[k] # Null /\ Val(predictions[k]).id = id}

\* updatePrediction and deletePrediction: prisma.prediction.findUnique with
\* its match, then the checks: the row, its owner, the scheduled date.
pred_find(p, op, predictionId, userId, home, away) ==
  /\ call[p].pc = "idle"
  /\ LET c == [IdleCall EXCEPT !.args =
                 Some([op |-> op, userId |-> userId, predictionId |-> predictionId,
                       home |-> home, away |-> away])]
         found == PredictionWithId(predictionId)
     IN call' = [call EXCEPT ![p] =
          IF found = {}
          THEN [c EXCEPT !.pc = "done", !.result = "NOT_FOUND"]
          ELSE LET k == CHOOSE k \in found : TRUE
               IN IF k[1] # userId
                  THEN [c EXCEPT !.pc = "done", !.result = "FORBIDDEN"]
                  ELSE IF started[k[2]]
                  THEN [c EXCEPT !.pc = "done", !.result = "BAD_REQUEST"]
                  ELSE [c EXCEPT !.pc = IF op = "updatePrediction"
                                       THEN "up_update" ELSE "del_delete"]]
  /\ UNCHANGED <<store, started, pure, other, hist>>

\* updatePrediction: prisma.prediction.update (P2025 when the row is gone).
up_update(p) ==
  LET a == Val(call[p].args)
      found == PredictionWithId(a.predictionId)
  IN /\ call[p].pc = "up_update"
     /\ IF found = {}
        THEN Throw(p, "RECORD_NOT_FOUND") /\ UNCHANGED predictions
        ELSE LET k == CHOOSE k \in found : TRUE
                 row == [Val(predictions[k]) EXCEPT !.home = a.home, !.away = a.away]
             IN /\ predictions' = [predictions EXCEPT ![k] = Some(row)]
                /\ call' = [call EXCEPT ![p] = Return(call[p], row)]
     /\ UNCHANGED <<matches, members, rankings, rules, started, pure, other, hist>>

\* deletePrediction: prisma.prediction.delete (P2025 when the row is gone).
del_delete(p) ==
  LET a == Val(call[p].args)
      found == PredictionWithId(a.predictionId)
  IN /\ call[p].pc = "del_delete"
     /\ IF found = {}
        THEN Throw(p, "RECORD_NOT_FOUND") /\ UNCHANGED predictions
        ELSE LET k == CHOOSE k \in found : TRUE
             IN /\ predictions' = [predictions EXCEPT ![k] = Null]
                /\ call' = [call EXCEPT ![p] =
                     Return(call[p], [message |-> "Prediction deleted successfully"])]
     /\ UNCHANGED <<matches, members, rankings, rules, started, pure, other, hist>>

\* createPredictionSchema and updatePredictionSchema:
\* z.number().int().min(0) of both predicted scores.
PredictionSchema(home, away) == home >= 0 /\ away >= 0

\* POST and PUT /api/predictions: the schema's parse throws a ZodError and
\* the service is not called.
parseFails(p, op, userId, home, away) ==
  /\ call[p].pc = "idle"
  /\ ~PredictionSchema(home, away)
  /\ call' = [call EXCEPT ![p] =
       [IdleCall EXCEPT !.pc = "done", !.result = "VALIDATION",
                        !.args = Some([op |-> op, userId |-> userId])]]
  /\ UNCHANGED <<store, started, pure, other, hist>>

\* A prediction as a read operation returns it.
Shown(k) ==
  [key |-> k, home |-> Val(predictions[k]).home, away |-> Val(predictions[k]).away]

\* getMatchPredictions(matchId, groupId, userId): prisma.groupMember.findFirst
\* and the 403.
gmp_findMember(p, matchId, groupId, userId) ==
  /\ call[p].pc = "idle"
  /\ LET c == [IdleCall EXCEPT !.id = matchId, !.args =
                 Some([op |-> "getMatchPredictions", userId |-> userId,
                       groupId |-> groupId])]
     IN call' = [call EXCEPT ![p] =
          IF memberRows[groupId][userId] = Null
          THEN [c EXCEPT !.pc = "done", !.result = "FORBIDDEN"]
          ELSE [c EXCEPT !.pc = "gmp_findMatch"]]
  /\ UNCHANGED <<store, started, pure, other, hist>>

\* getMatchPredictions: prisma.match.findUnique, the 404, and the test that
\* chooses the query: the scheduled date is ahead and the status 'scheduled'.
gmp_findMatch(p) ==
  LET c == call[p]
  IN /\ c.pc = "gmp_findMatch"
     /\ IF matches[c.id] = Null
        THEN Throw(p, "NOT_FOUND")
        ELSE IF ~started[c.id] /\ Val(matches[c.id]).status = "scheduled"
        THEN call' = [call EXCEPT ![p].pc = "gmp_findOwn"]
        ELSE call' = [call EXCEPT ![p].pc = "gmp_findMany"]
     /\ UNCHANGED <<store, started, pure, other, hist>>

\* getMatchPredictions before the start: prisma.prediction.findFirst of the
\* requester's own prediction.
gmp_findOwn(p) ==
  LET c == call[p]
      a == Val(c.args)
      rows == {k \in PredKeys :
                 /\ predictions[k] # Null
                 /\ k[2] = c.id /\ k[3] = a.groupId /\ k[1] = a.userId}
  IN /\ c.pc = "gmp_findOwn"
     /\ call' = [call EXCEPT ![p] = Return(c, {Shown(k) : k \in rows})]
     /\ UNCHANGED <<store, started, pure, other, hist>>

\* getMatchPredictions otherwise: prisma.prediction.findMany of the match and
\* group.
gmp_findMany(p) ==
  LET c == call[p]
      a == Val(c.args)
      rows == {k \in PredKeys :
                 predictions[k] # Null /\ k[2] = c.id /\ k[3] = a.groupId}
  IN /\ c.pc = "gmp_findMany"
     /\ call' = [call EXCEPT ![p] = Return(c, {Shown(k) : k \in rows})]
     /\ UNCHANGED <<store, started, pure, other, hist>>

\* GroupService.getGroupPredictions(groupId, userId):
\* prisma.groupMember.findFirst and the 403.
ggp_findMember(p, groupId, userId) ==
  /\ call[p].pc = "idle"
  /\ LET c == [IdleCall EXCEPT !.args =
                 Some([op |-> "getGroupPredictions", userId |-> userId,
                       groupId |-> groupId])]
     IN call' = [call EXCEPT ![p] =
          IF memberRows[groupId][userId] = Null
          THEN [c EXCEPT !.pc = "done", !.result = "FORBIDDEN"]
          ELSE [c EXCEPT !.pc = "ggp_findMany"]]
  /\ UNCHANGED <<store, started, pure, other, hist>>

\* getGroupPredictions: prisma.prediction.findMany of the group.
ggp_findMany(p) ==
  LET c == call[p]
      a == Val(c.args)
      rows == {k \in PredKeys : predictions[k] # Null /\ k[3] = a.groupId}
  IN /\ c.pc = "ggp_findMany"
     /\ call' = [call EXCEPT ![p] = Return(c, {Shown(k) : k \in rows})]
     /\ UNCHANGED <<store, started, pure, other, hist>>

\* Time passes the scheduled date of a match.
Tick(m) ==
  /\ ~started[m]
  /\ started' = [started EXCEPT ![m] = TRUE]
  /\ UNCHANGED <<store, pure, other, call, hist>>

\* One step of a request p that writes predictions: createPrediction (1-0) of
\* a user in creators, updatePrediction (to 1-1) and deletePrediction of an id
\* in ids by a user in owners.
StepWrite(p, creators, ids, owners) ==
  \/ \E userId \in creators : cp_findMatch(p, userId, PredMatch, PredGroup, 1, 0)
  \/ cp_findMember(p)
  \/ cp_findExisting(p)
  \/ cp_create(p)
  \/ \E op \in {"updatePrediction", "deletePrediction"}, id \in ids,
        userId \in owners :
        pred_find(p, op, id, userId, 1, 1)
  \/ up_update(p)
  \/ del_delete(p)
  \/ \E op \in {"createPrediction", "updatePrediction"}, userId \in creators,
        sc \in {<<-1, 0>>} :
        parseFails(p, op, userId, sc[1], sc[2])
  \/ respond(p)

\* One step of a request p that reads predictions.
StepRead(p, readers) ==
  \/ \E userId \in readers : gmp_findMember(p, PredMatch, PredGroup, userId)
  \/ gmp_findMatch(p)
  \/ gmp_findOwn(p)
  \/ gmp_findMany(p)
  \/ \E userId \in readers : ggp_findMember(p, PredGroup, userId)
  \/ ggp_findMany(p)
  \/ respond(p)

\* Two requests write predictions concurrently; request 2 may also update the
\* match, with a body that starts the match or moves its date; time passes.
NextWrite ==
  \/ \E p \in Procs : StepWrite(p, PredUsers, PredictionIds, PredUsers)
  \/ StepUpdate(2, {PredMatch},
                {MatchData(Some("live"), Null, Null, Null),
                 MatchData(Some("finished"), Null, Null, Null),
                 MatchData(Null, Null, Null, Some("past")),
                 MatchData(Null, Null, Null, Some("future"))})
  \/ Tick(PredMatch)

\* Request 1 reads the predictions of the match.  Request 2 writes a
\* prediction of u1 or deletes that of u2, updates the match (sets it live or
\* moves its scheduled date ahead), or changes the
\* members: u3 leaves, the owner removes u2.  Time passes.
NextRead ==
  \/ StepRead(1, Users)
  \/ StepWrite(2, {"u1"}, {1}, {"u2"})
  \/ StepUpdate(2, {PredMatch},
                {MatchData(Some("live"), Null, Null, Null),
                 MatchData(Null, Null, Null, Some("future"))})
  \/ StepLeave(2, PredGroup, {"u3"})
  \/ StepRemove(2, PredGroup, {Owner(PredGroup)}, {"u2"})
  \/ Tick(PredMatch)

InitPred ==
  /\ matches = [m \in MatchIds |->
       IF m \in Matches
       THEN Some([status |-> "scheduled", homeScore |-> Null, awayScore |-> Null])
       ELSE Null]
  /\ predictions = [k \in PredKeys |->
       IF k = <<"u2", PredMatch, PredGroup>>
       THEN Some([id |-> 1, home |-> 0, away |-> 0, pointsEarned |-> Null])
       ELSE Null]
  /\ members = InitMembers
  /\ rankings = [g \in Groups |-> [u \in Users |-> Null]]
  /\ rules = InitRules
  /\ started = [m \in MatchIds |-> FALSE]
  /\ call = [p \in Procs |-> IdleCall]
  /\ scoredWith = [m \in MatchIds |-> <<>>]
  /\ rankBefore = [g \in Groups |-> [u \in Users |-> Null]]
  /\ cpArgs = NoArgs
  /\ cpResult = Null
  /\ nextPredictionId = 2
  /\ InitCatalog

SpecWrite == InitPred /\ [][NextWrite]_vars

SpecRead == InitPred /\ [][NextRead]_vars

\* The same as NextWrite, and request 2 may also delete the match, or, as the
\* owner, the group.
NextDelete ==
  \/ NextWrite
  \/ deleteMatch(2, PredMatch)
  \/ dg_check(2, PredGroup, Owner(PredGroup))
  \/ dg_delete(2)

SpecDelete == InitPred /\ [][NextDelete]_vars

\* ------------------------------------------------------------- the program

\* One step of request p: of any operation above, with the inputs above.
StepAll(p) ==
  \/ StepScore(p, MatchIds, ResultInputs, {Null, Some("live"), Some("finished")})
  \/ StepUpdate(p, MatchIds, MatchBodies)
  \/ StepCatalog(p, MatchIds, TeamIds, IngestItems, ResultInputs)
  \/ \E id \in TeamIds,
        data \in [id : {Null} \cup {Some(t) : t \in TeamIds},
                  competitionId : {Null} \cup {Some(c) : c \in CompetitionIds}] :
        createTeam(p, data) \/ updateTeam(p, id, data)
  \/ \E id \in CompetitionIds,
        data \in [id : {Null} \cup {Some(c) : c \in CompetitionIds}] :
        createCompetition(p, data) \/ updateCompetition(p, id, data)
  \/ StepCreate(p)
  \/ StepWrite(p, Users, PredictionIds, Users)
  \/ StepRead(p, Users)
  \/ \E g \in Groups : StepJoin(p, g, Users)
  \/ \E g \in Groups : StepLeave(p, g, Users)
  \/ \E g \in Groups : StepRemove(p, g, Users, Users)
  \/ StepGroup(p, CompetitionIds, Groups, Users)
  \/ StepRules(p, Groups, Users, 1..MaxRuleIds,
               [ruleDescription : {Null} \cup {Some(r.ruleDescription) : r \in RuleInputs},
                points : {Some(r.points) : r \in RuleInputs}])
  \/ StepInvite(p, InvitationIds, Users)
  \/ writeFails(p)

\* Every request may be in progress in either position, together with the
\* ingest of the competitions and the passing of time.
NextAll ==
  \/ \E p \in Procs : StepAll(p)
  \/ \E id \in Competitions : ingestCompetitions_upsert(id)
  \/ \E m \in MatchIds : Tick(m)

SpecAll == InitStored /\ [][NextAll]_vars

\* ------------------------------------------------------------------ claims

\* The positions of a request inside the scoring loop or the re-ranking.
ScoringPcs ==
  {"pred_update", "member_update", "ranking_find", "ranking_write", "ugr_find", "ugr_write"}

\* No request is inside the scoring loop or the re-ranking.
Quiet == \A p \in Procs : call[p].pc \notin ScoringPcs

\* Standard competition rank: 1 + the number of rows of the group with a
\* strictly greater total.
StandardRank(g, u) ==
  1 + Cardinality({v \in Users : /\ rankings[g][v] # Null
                                 /\ Val(rankings[g][v]).totalPoints
                                      > Val(rankings[g][u]).totalPoints})

RanksStandardIn(g) ==
  \A u \in Users :
     rankings[g][u] # Null => Val(rankings[g][u]).rank = Some(StandardRank(g, u))

\* The scored predictions of a user in a group.
ScoredPredictions(g, u) ==
  {k \in PredKeys : /\ k[1] = u /\ k[3] = g
                    /\ predictions[k] # Null
                    /\ Val(predictions[k]).pointsEarned # Null}

PointsEarned(k) == Val(Val(predictions[k]).pointsEarned)

RECURSIVE SumPoints(_)
SumPoints(S) ==
  IF S = {} THEN 0
  ELSE LET k == CHOOSE x \in S : TRUE IN PointsEarned(k) + SumPoints(S \ {k})

\* The member total and the ranking row of (g, u) are the aggregate of the
\* user's scored predictions in the group.
AggregatesMatch(g, u) ==
  LET ps == ScoredPredictions(g, u)
  IN /\ members[g][u] # Null => members[g][u] = Some(SumPoints(ps))
     /\ IF ps = {}
        THEN rankings[g][u] = Null
        ELSE /\ rankings[g][u] # Null
             /\ Val(rankings[g][u]).totalPoints = SumPoints(ps)
             /\ Val(rankings[g][u]).totalPredictions = Cardinality(ps)
             /\ Val(rankings[g][u]).correctPredictions
                  = Cardinality({k \in ps : PointsEarned(k) > 0})

\* The totals of a ranking row (or Null): what a finalization adds to.
Totals(row) ==
  IF row = Null THEN Null
  ELSE <<Val(row).totalPoints, Val(row).totalPredictions, Val(row).correctPredictions>>

\* The groups with a prediction on the match.
TouchedGroups(m) == {k[3] : k \in PredictionsOfMatch(m)}

\* C1: a finalization that repeats the previous one of the same match with the
\* same result changes no member total and no ranking total: no step of its
\* scoring loop changes members, or totalPoints, totalPredictions,
\* correctPredictions of any ranking row.
C1_RepeatedFinalizationChangesNothing ==
  [][\A p \in Procs :
       (/\ call[p].pc \in ScoringPcs
        /\ call'[p] # call[p]
        /\ Len(scoredWith[call[p].id]) >= 2
        /\ scoredWith[call[p].id][Len(scoredWith[call[p].id])]
             = scoredWith[call[p].id][Len(scoredWith[call[p].id]) - 1])
       => /\ members' = members
          /\ \A g \in Groups, u \in Users :
               Totals(rankings'[g][u]) = Totals(rankings[g][u])]_vars

\* C2: when calculatePointsForMatch reads a match that is not 'finished', or
\* has a null homeScore or awayScore, the call ends with the BAD_REQUEST
\* precondition error and the store is left as it was.
C2_PreconditionFailureWritesNothing ==
  [][\A p \in Procs :
       (/\ call[p].pc = "calc_find"
        /\ call'[p] # call[p]
        /\ matches[call[p].id] # Null
        /\ \/ Val(matches[call[p].id]).status # "finished"
           \/ Val(matches[call[p].id]).homeScore = Null
           \/ Val(matches[call[p].id]).awayScore = Null)
       => /\ call'[p].pc = "done"
          /\ call'[p].result = "BAD_REQUEST"
          /\ UNCHANGED store]_vars

\* C2 witness: a call on a finished match with null scores has been rejected.
C2_Witness ==
  \E p \in Procs :
     /\ call[p].pc = "done"
     /\ call[p].result = "BAD_REQUEST"
     /\ matches[call[p].id] # Null
     /\ Val(matches[call[p].id]).status = "finished"
     /\ Val(matches[call[p].id]).homeScore = Null

\* C3: once updateGroupRankings has run for a group (requests served one at a
\* time), every row of the group has rank 1 + the number of rows of the group
\* with strictly greater totalPoints: of the groups a running call has already
\* re-ranked, and of every group when no call is scoring or re-ranking.
C3_StandardCompetitionRanks ==
  \A p \in Procs :
     /\ call[p].pc \in {"ugr_find", "ugr_write"}
          => \A j \in 1..(call[p].g - 1) : RanksStandardIn(call[p].groups[j])
     /\ Quiet => \A g \in Groups : RanksStandardIn(g)

\* C3 witness: three rows of g1 ranked 1, 1, 3 after a re-ranking.
C3_Witness ==
  /\ Quiet
  /\ \E u, v, w \in Users :
       /\ u # v /\ u # w /\ v # w
       /\ \A x \in {u, v, w} : rankings["g1"][x] # Null
       /\ Val(rankings["g1"][u]).rank = Some(1)
       /\ Val(rankings["g1"][v]).rank = Some(1)
       /\ Val(rankings["g1"][w]).rank = Some(3)

\* C4: with every match finalized at most once and no call in its scoring
\* loop, each member's totalPoints and ranking row equal the aggregate of the
\* user's scored predictions in the group: the sum of their points, their
\* number, and the number of them with points > 0; there is no row before the
\* first scored prediction.
C4_AdditiveAggregation ==
  (Quiet /\ \A m \in Matches : Len(scoredWith[m]) <= 1)
    => \A g \in Groups, u \in Users : members[g][u] # Null => AggregatesMatch(g, u)

\* C4 witness: a user with two scored predictions of 5 and 3 points in a group
\* has member total 8, ranking total 8, 2 predictions, 2 correct.
C4_Witness ==
  /\ Quiet
  /\ \A m \in Matches : Len(scoredWith[m]) = 1
  /\ \E g \in Groups, u \in Users :
       /\ {PointsEarned(k) : k \in ScoredPredictions(g, u)} = {5, 3}
       /\ members[g][u] = Some(8)
       /\ rankings[g][u] # Null
       /\ Totals(rankings[g][u]) = <<8, 2, 2>>

\* C5: after two concurrent finalizations of two different matches have both
\* returned, every ranking row has the standard competition rank of its final
\* totalPoints.
C5_RanksAfterConcurrentFinalizations ==
  (/\ \A p \in Procs : call[p].pc = "done" /\ call[p].result = "ok"
   /\ call[1].id # call[2].id
   /\ \A p \in Procs : call[p].id \in Matches /\ Len(scoredWith[call[p].id]) = 1)
    => \A g \in Groups : RanksStandardIn(g)

\* C6: two concurrent finalizations of two different matches both succeed, and
\* afterwards member totals and ranking rows hold the points of both.
C6_NoLostIncrement ==
  (/\ \A p \in Procs : call[p].pc = "done"
   /\ call[1].id # call[2].id
   /\ \A p \in Procs : call[p].id \in Matches /\ Len(scoredWith[call[p].id]) = 1)
    => /\ \A p \in Procs : call[p].result = "ok"
       /\ \A g \in Groups, u \in Users : members[g][u] # Null => AggregatesMatch(g, u)

\* C7: when a storage write has failed inside calculatePointsForMatch (every
\* match finalized at most once), each prediction has all three effects of its
\* scoring or none: pointsEarned, the member total and the ranking row agree.
C7_ScoringWritesAtomic ==
  (/\ \E p \in Procs : call[p].pc = "done" /\ call[p].result = "STORAGE_ERROR"
   /\ \A m \in Matches : Len(scoredWith[m]) <= 1)
    => \A g \in Groups, u \in Users : members[g][u] # Null => AggregatesMatch(g, u)

\* Of the finalization that failed in call p: no write persists.
NoWritePersists(p) ==
  /\ \A k \in PredictionsOfMatch(call[p].id) : Val(predictions[k]).pointsEarned = Null
  /\ \A g \in Groups, u \in Users : members[g][u] # Null => AggregatesMatch(g, u)

\* Of the finalization that failed in call p: every prediction but the one
\* whose write failed is fully scored, and the groups touched are re-ranked.
IsolatedFailure(p) ==
  /\ \A k \in PredictionsOfMatch(call[p].id) :
        \/ /\ call[p].predictions # <<>>
           /\ k = call[p].predictions[1].key
        \/ /\ Val(predictions[k]).pointsEarned # Null
           /\ AggregatesMatch(k[3], k[1])
  /\ \A g \in TouchedGroups(call[p].id) : RanksStandardIn(g)

\* C8: when a storage write has failed inside calculatePointsForMatch (every
\* match finalized at most once), the call has reported the failure and either
\* no write of the finalization persists, or every prediction whose own write
\* did not fail is fully scored and the groups touched are re-ranked.
C8_AllOrNothingOrIsolation ==
  \A p \in Procs :
     (/\ call[p].pc = "done" /\ call[p].result = "STORAGE_ERROR"
      /\ \A m \in Matches : Len(scoredWith[m]) <= 1)
       => NoWritePersists(p) \/ IsolatedFailure(p)

\* C9: outside a re-ranking of the group, every ranked row's previousRank is the
\* rank the row held when the latest re-ranking of its group began (null when
\* it had none), whether or not its user had a prediction on the match.
C9_PreviousRankIsRankBefore ==
  \A g \in Groups :
     (\A p \in Procs : ~(call[p].pc = "ugr_write" /\ call[p].groups[call[p].g] = g))
       => \A u \in Users :
             (rankings[g][u] # Null /\ Val(rankings[g][u]).rank # Null)
               => Val(rankings[g][u]).previousRank = rankBefore[g][u]

\* C9 witness: a finalization has moved a user without a prediction on the
\* match from rank 1 to rank 2.
C9_Witness ==
  \E p \in Procs, g \in Groups, u \in Users :
     /\ call[p].pc = "done" /\ call[p].result = "ok" /\ call[p].id \in Matches
     /\ predictions[<<u, call[p].id, g>>] = Null
     /\ rankings[g][u] # Null
     /\ Val(rankings[g][u]).rank = Some(2)
     /\ Val(rankings[g][u]).previousRank = Some(1)

\* C10: a step of a finalization changes ranking rows and member totals only
\* in the groups with a prediction on its match, and the rank it writes to a
\* row is the standard rank among the rows of that row's own group.
C10_OtherGroupsUnchanged ==
  [][\A p \in Procs :
       (call[p].pc \in ScoringPcs /\ call'[p] # call[p])
       => /\ \A g \in Groups \ TouchedGroups(call[p].id) :
               rankings'[g] = rankings[g] /\ members'[g] = members[g]
          /\ call[p].pc = "ugr_write" /\ rankings' # rankings
               => LET id == call[p].rankings[call[p].r].id
                  IN Val(rankings'[id[1]][id[2]]).rank = Some(StandardRank(id[1], id[2]))]_vars

\* C10 witness: a match with predictions in one group only has been finalized
\* while the other group has ranking rows.
C10_Witness ==
  \E p \in Procs, g \in Groups :
     /\ call[p].pc = "done" /\ call[p].result = "ok" /\ call[p].id \in Matches
     /\ TouchedGroups(call[p].id) # {}
     /\ g \notin TouchedGroups(call[p].id)
     /\ RankingRowsOf(g) # {}


\* ------------------------------------------- claims about calculatePoints

\* calculatePoints has returned.
Computed == cpResult # Null

ExactPrediction ==
  cpArgs.predictedHome = cpArgs.actualHome /\ cpArgs.predictedAway = cpArgs.actualAway

PredictedClass == MatchResult(cpArgs.predictedHome, cpArgs.predictedAway)
ActualClass == MatchResult(cpArgs.actualHome, cpArgs.actualAway)

\* The category that applies to the arguments: its keyword and default, or
\* Null when the prediction is a miss.
ApplicableCategory ==
  IF ExactPrediction THEN Some([keyword |-> ExactScoreKeyword, dflt |-> 5])
  ELSE IF PredictedClass # ActualClass THEN Null
  ELSE IF ActualClass = "draw" THEN Some([keyword |-> CorrectDrawKeyword, dflt |-> 3])
  ELSE Some([keyword |-> CorrectWinnerKeyword, dflt |-> 3])

\* The stored value of a rule, or the default when there is no rule.
RuleValueOr(rule, dflt) == IF rule = Null THEN dflt ELSE Val(rule).points

\* Lower case, of the letters the descriptions here hold in upper case.
Lower(ch) ==
  IF ch = "E" THEN "e" ELSE IF ch = "C" THEN "c" ELSE IF ch = "S" THEN "s" ELSE ch
LowerCase(str) == [i \in 1..Len(str) |-> Lower(str[i])]

\* The first rule whose description holds the keyword as a case-insensitive
\* substring, or Null.
CategoryRule(ruleList, kw) ==
  LET hits == {i \in 1..Len(ruleList) :
                 /\ ruleList[i].ruleDescription # Null
                 /\ Includes(LowerCase(Val(ruleList[i].ruleDescription)), LowerCase(kw))}
  IN IF hits = {} THEN Null
     ELSE Some(ruleList[CHOOSE i \in hits : \A j \in hits : i <= j])

\* C11: for an exact prediction calculatePoints returns the exact-score value,
\* the value of the group's exact-score rule or 5 when there is none, with no
\* winner or draw points added.
C11_ExactScoreValueOnly ==
  (Computed /\ ExactPrediction)
    => Val(cpResult) = RuleValueOr(FindRule(cpArgs.rules, ExactScoreKeyword), 5)

\* C12: for a prediction that is not exact calculatePoints returns the
\* correct-draw value when predicted and actual results are both draws, the
\* correct-winner value when both are wins of the same side, and 0 when the
\* classes differ.
C12_OutcomeClassValue ==
  (Computed /\ ~ExactPrediction)
    => Val(cpResult) =
         IF PredictedClass # ActualClass THEN 0
         ELSE IF ActualClass = "draw"
              THEN RuleValueOr(FindRule(cpArgs.rules, CorrectDrawKeyword), 3)
              ELSE RuleValueOr(FindRule(cpArgs.rules, CorrectWinnerKeyword), 3)

\* C13: when the rule list holds a rule of the category that applies,
\* calculatePoints returns that rule's stored points, whatever integer it is.
C13_StoredRuleValueAwarded ==
  (/\ Computed
   /\ ApplicableCategory # Null
   /\ FindRule(cpArgs.rules, Val(ApplicableCategory).keyword) # Null)
    => Val(cpResult) = Val(FindRule(cpArgs.rules, Val(ApplicableCategory).keyword)).points

\* C14: when the rule list is empty or holds no rule of the category that
\* applies, calculatePoints returns the default of the category: 5 for an exact
\* score, 3 for a correct winner, 3 for a correct draw.
C14_DefaultWithoutRule ==
  (/\ Computed
   /\ ApplicableCategory # Null
   /\ CategoryRule(cpArgs.rules, Val(ApplicableCategory).keyword) = Null)
    => Val(cpResult) = Val(ApplicableCategory).dflt

\* C14 witness: calculatePoints(2, 0, 2, 0, []) has returned 5.
C14_Witness ==
  /\ cpArgs = [predictedHome |-> 2, predictedAway |-> 0, actualHome |-> 2,
               actualAway |-> 0, rules |-> <<>>]
  /\ cpResult = Some(5)

\* C15: calculatePoints returns an integer >= 0 for every input and every rule
\* list a group can store.
C15_PointsNonNegative ==
  Computed => Val(cpResult) >= 0

\* C16: a rule whose description holds the category keyword in any letter case
\* is found as the rule of the category, and its (non-zero) points are returned.
C16_CaseInsensitiveLookup ==
  (/\ Computed
   /\ ApplicableCategory # Null
   /\ CategoryRule(cpArgs.rules, Val(ApplicableCategory).keyword) # Null
   /\ Val(CategoryRule(cpArgs.rules, Val(ApplicableCategory).keyword)).points # 0)
    => Val(cpResult)
         = Val(CategoryRule(cpArgs.rules, Val(ApplicableCategory).keyword)).points


\* ------------------------------------------------ claims about lifecycles

\* C17: each prediction is scored once: a non-null pointsEarned is never
\* changed, and a later finalization of the match adds nothing to member
\* totals or ranking totals.
C17_ScoredExactlyOnce ==
  [][/\ \A k \in PredKeys :
          (predictions[k] # Null /\ Val(predictions[k]).pointsEarned # Null)
            => /\ predictions'[k] # Null
               /\ Val(predictions'[k]).pointsEarned = Val(predictions[k]).pointsEarned
     /\ \A p \in Procs :
          (/\ call[p].pc \in ScoringPcs
           /\ call'[p] # call[p]
           /\ Len(scoredWith[call[p].id]) >= 2)
          => /\ members' = members
             /\ \A g \in Groups, u \in Users :
                  Totals(rankings'[g][u]) = Totals(rankings[g][u])]_vars

\* C18: a match whose status is 'postponed' or 'cancelled' keeps that status,
\* and its predictions are not scored.
C18_PostponedCancelledTerminal ==
  [][\A m \in Matches :
       (matches[m] # Null /\ Val(matches[m]).status \in {"postponed", "cancelled"})
         => /\ matches'[m] # Null
            /\ Val(matches'[m]).status = Val(matches[m]).status
            /\ \A k \in PredictionsOfMatch(m) : predictions'[k] = predictions[k]]_vars

\* A step that writes the pointsEarned of a stored prediction, the total of a
\* member row, or a ranking row.
ScoringWrite ==
  \/ \E k \in PredKeys :
        /\ predictions[k] # Null /\ predictions'[k] # Null
        /\ Val(predictions'[k]).pointsEarned # Val(predictions[k]).pointsEarned
  \/ \E g \in Groups, u \in Users :
        /\ members[g][u] # Null /\ members'[g][u] # Null
        /\ members'[g][u] # members[g][u]
  \/ rankings' # rankings

\* C19: a step of a request writes pointsEarned, a member total or a ranking
\* row only inside the scoring of a match that the call found stored as
\* 'finished' with both scores set when it was made; and updateScore storing
\* a status other than 'finished' stores the scores and ends without any such
\* write.
C19_ScoringOnlyWhenFinished ==
  [][\A p \in Procs :
       call'[p] # call[p]
       => /\ ScoringWrite
               => /\ call[p].pc \in ScoringPcs
                  /\ call[p].match # Null
                  /\ Val(call[p].match).status = "finished"
                  /\ Val(call[p].match).homeScore # Null
                  /\ Val(call[p].match).awayScore # Null
          /\ (/\ call[p].pc = "us_update"
              /\ matches'[call[p].id] # Null
              /\ Val(matches'[call[p].id]).status # "finished")
               => /\ call'[p].pc = "done"
                  /\ call'[p].result = "ok"
                  /\ UNCHANGED <<predictions, members, rankings>>]_vars

\* C19 witness: updateScore with status 'live' has stored the score of a match
\* with a prediction and returned; nothing is scored.
C19_Witness ==
  \E p \in Procs :
     /\ call[p].pc = "done" /\ call[p].result = "ok" /\ call[p].id \in Matches
     /\ Val(matches[call[p].id]).status = "live"
     /\ Val(matches[call[p].id]).homeScore = Some(1)
     /\ PredictionsOfMatch(call[p].id) # {}
     /\ \A k \in PredKeys : predictions[k] # Null => Val(predictions[k]).pointsEarned = Null
     /\ \A g \in Groups : RankingRowsOf(g) = {}

\* C20: calculatePointsForMatch for a match id without a record ends with a
\* NOT_FOUND error and writes nothing.
C20_MissingMatchNotFound ==
  [][\A p \in Procs :
       (/\ call[p].pc = "calc_find"
        /\ call'[p] # call[p]
        /\ matches[call[p].id] = Null)
       => /\ call'[p].pc = "done"
          /\ call'[p].result = "NOT_FOUND"
          /\ UNCHANGED store]_vars

\* A finalization that has returned: calculatePointsForMatch ran to its
\* return in request p.  The score requests are the requests that carry no
\* argument record, and of their ways to end only the return of
\* calculatePointsForMatch leaves a value.
Finalized(p) ==
  /\ call[p].pc = "done" /\ call[p].result = "ok"
  /\ call[p].args = Null
  /\ call[p].returned # Null

\* C21: a successful finalization returns predictionsScored, the number of
\* predictions stored for the match (0 when there is none).
C21_ReturnsPredictionsScored ==
  \A p \in Procs :
     Finalized(p)
       => /\ "predictionsScored" \in DOMAIN Val(call[p].returned)
          /\ Val(call[p].returned).predictionsScored =
                Cardinality(PredictionsOfMatch(call[p].id))

\* C25: a precondition failure of scoring is answered with a 4xx status, and
\* only a storage failure is answered with a 5xx status.
C25_PreconditionFailureIs4xx ==
  \A p \in Procs :
     (call[p].pc = "done" /\ call[p].result # "ok")
       => /\ call[p].result = "BAD_REQUEST"
               => ResponseStatus(call[p]) \in 400..499
          /\ ResponseStatus(call[p]) >= 500
               => call[p].result = "STORAGE_ERROR"

\* C26: when calculatePointsForMatch returns successfully, every prediction
\* stored for the match holds the points calculatePoints gives for its
\* predicted scores, the match's scores as the call read them and its group's
\* rules, and every ranking row of every group with a prediction for the
\* match has a rank.
C26_AllScoredAllRanked ==
  [][\A p \in Procs :
       (call[p].pc \in ScoringPcs /\ call[p].match # Null
        /\ call'[p].pc = "done" /\ call'[p].result = "ok")
         => LET m == Val(call[p].match)
            IN /\ \A k \in PredKeys :
                    (k[2] = call[p].id /\ predictions'[k] # Null)
                      => Val(predictions'[k]).pointsEarned =
                           Some(calculatePoints(Val(predictions'[k]).home,
                                                Val(predictions'[k]).away,
                                                Val(m.homeScore), Val(m.awayScore),
                                                rules[k[3]]))
               /\ \A k \in PredKeys : \A u \in Users :
                    (k[2] = call[p].id /\ predictions'[k] # Null
                     /\ rankings'[k[3]][u] # Null)
                      => Val(rankings'[k[3]][u]).rank # Null]_vars

\* C28: every ranking row has 0 <= correctPredictions <= totalPredictions and
\* totalPredictions >= 1 (rows are keyed by group and user, one per pair).
C28_RankingCountsBounded ==
  \A g \in Groups : \A u \in Users :
     rankings[g][u] # Null
       => LET row == Val(rankings[g][u])
          IN /\ 0 <= row.correctPredictions
             /\ row.correctPredictions <= row.totalPredictions
             /\ row.totalPredictions >= 1

\* C28 witness: a row that counts two scored predictions, one of them correct.
C28_Witness ==
  \E g \in Groups : \E u \in Users :
     /\ rankings[g][u] # Null
     /\ Val(rankings[g][u]).totalPredictions = 2
     /\ Val(rankings[g][u]).correctPredictions = 1

\* C22: a triple (user, match, group) has at most one prediction: a create
\* that reaches the storage when the triple has a row, as the later of two
\* concurrent createPrediction calls does, fails with a conflict and changes
\* no prediction; a create whose match or group was deleted meanwhile fails
\* on the foreign key and changes no prediction; any other create adds the row
\* of its own triple only.
C22_OnePredictionPerTriple ==
  [][\A p \in Procs :
       (call[p].pc = "cp_create" /\ call'[p] # call[p])
         => LET key == Val(call[p].args).key
            IN IF predictions[key] # Null
               THEN /\ call'[p].pc = "done"
                    /\ call'[p].result = "CONFLICT"
                    /\ predictions' = predictions
               ELSE IF matches[key[2]] = Null \/ key[3] \notin groups
               THEN /\ call'[p].pc = "done"
                    /\ call'[p].result = "FOREIGN_KEY"
                    /\ predictions' = predictions
               ELSE /\ call'[p].pc = "done"
                    /\ call'[p].result = "ok"
                    /\ predictions'[key] # Null
                    /\ \A k \in PredKeys \ {key} : predictions'[k] = predictions[k]]_vars

\* C22 witness: of two concurrent createPrediction calls of u1 for the same
\* match and group, one has stored the prediction and the other one, whose
\* findFirst had found none, has ended with the conflict of the unique index.
C22_Witness ==
  \E p \in Procs :
     /\ call[p].pc = "done" /\ call[p].result = "CONFLICT"
     /\ call[p].args # Null
     /\ Val(call[p].args).op = "createPrediction"
     /\ predictions[Val(call[p].args).key] # Null
     /\ Cardinality({k \in PredKeys : predictions[k] # Null}) = 2

\* C23: once the match is live or finished no prediction for it is created,
\* changed or deleted, whatever its scheduled date.
C23_NoChangeOnceLiveOrFinished ==
  [][\A k \in PredKeys :
       (/\ matches[k[2]] # Null
        /\ Val(matches[k[2]]).status \in {"live", "finished"})
         => predictions'[k] = predictions[k]]_vars

\* C29: while a match is scheduled and has not started, no read operation
\* returns to a member the predicted scores of another member for it: the
\* query that ends getMatchPredictions or getGroupPredictions returns, of the
\* matches that are scheduled and not started at that moment, the requester's
\* own predictions only.
C29_OthersHiddenBeforeStart ==
  [][\A p \in Procs :
       (/\ call[p].pc \in {"gmp_findOwn", "gmp_findMany", "ggp_findMany"}
        /\ call'[p].pc = "done"
        /\ call'[p].result = "ok")
         => \A shown \in Val(call'[p].returned) :
               (/\ ~started[shown.key[2]]
                /\ matches[shown.key[2]] # Null
                /\ Val(matches[shown.key[2]]).status = "scheduled")
                 => shown.key[1] = Val(call'[p].args).userId]_vars

\* C27: while no scoring is under way, a user with both a member row and a
\* ranking row in a group has the same totalPoints in both.
C27_MemberTotalIsRankingTotal ==
  Quiet =>
    \A g \in Groups : \A u \in Users :
       (members[g][u] # Null /\ rankings[g][u] # Null)
         => Val(members[g][u]) = Val(rankings[g][u]).totalPoints

\* C24: when a createGroup request that has created its group row ends, by
\* its return or by an error, the group, if it still exists, has exactly the
\* three seed rules 'Exact score' = 5, 'Correct winner' = 3 and 'Correct
\* draw' = 3, and its creator as a member with the role 'owner'.
C24_GroupHasOwnerAndSeedRules ==
  [][\A p \in Procs :
       (call[p].pc \in {"cg_member", "cg_rules"} /\ call'[p].pc = "done")
         => LET a == Val(call[p].args)
                g == Val(a.group)
            IN g \in groups'
                 => /\ [i \in 1..Len(rules'[g]) |->
                         [ruleDescription |-> rules'[g][i].ruleDescription,
                          points |-> rules'[g][i].points]] = SeedRules
                    /\ members'[g][a.userId] # Null
                    /\ memberRows'[g][a.userId] # Null
                    /\ Val(memberRows'[g][a.userId]).role = "owner"]_vars

\* C30: an invitation that has left 'pending' keeps its status, and no accept
\* or reject succeeds on it any more, however the requests interleave.
C30_InvitationDecidedOnce ==
  [][/\ \A i \in InvitationIds :
          (/\ invitations[i] # Null
           /\ Val(invitations[i]).status # "pending"
           /\ invitations'[i] # Null)
            => Val(invitations'[i]).status = Val(invitations[i]).status
     /\ \A p \in Procs :
          (/\ call[p].pc \in {"acc_tx", "rej_update"}
           /\ invitations[Val(call[p].args).invitationId] # Null
           /\ Val(invitations[Val(call[p].args).invitationId]).status # "pending"
           /\ call'[p].pc = "done")
            => call'[p].result # "ok"]_vars

====
